---- MODULE Spec2Model ----
(***************************************************************************)
(* Agent Task Manager: the workflow orchestrator, the Linear service and   *)
(* the metadata codec that stores task metadata inside issue descriptions. *)
(*                                                                         *)
(* Text is a sequence of tokens.  A token is a word, a blank, a newline or *)
(* one of the literals of the metadata grammar; the regular expressions of *)
(* the codec are translated to scans over token sequences.  An absent      *)
(* (undefined) string field is the empty text: the code only ever tests    *)
(* such fields for truthiness.                                             *)
(***************************************************************************)
EXTENDS Integers, Sequences, FiniteSets, TLC

(***************************************************************************)
(* Tokens                                                                  *)
(***************************************************************************)
SP == " "
NL == "\n"
METADATA_SEPARATOR == "---WORKFLOW-METADATA---"
METADATA_END == "---END-METADATA---"
GoalKey == "**Goal:**"
EffortKey == "**Effort:**"
EffortReasonKey == "**Effort Reason:**"
ComplexityBiasKey == "**Complexity Bias:**"
UncertaintiesKey == "**Uncertainties:**"
LessonsKey == "**Lessons Learned:**"
NotSpecified == "Not specified"
NoDetails == "Resolved (no details provided)"
Dash == "-"
LBracket == "["
RBracket == "]"
CheckMark == "x"
DescriptionKey == "Description:"
ResolutionKey == "Resolution:"
ResolvedByKey == "Resolved By:"
ResolvedAtKey == "Resolved At:"
Now == "2026-01-01T00:00:00.000Z"

LessonCategories == {"pattern", "decision", "gotcha", "solution", "performance", "balance"}
ComplexityBiases == {"low", "medium", "high"}
FIBONACCI_EFFORT_VALUES == <<1, 2, 3, 5, 8, 13, 21>>

\* The words user strings are made of.
Words == {"Risk", "risk", "Auth", "auth", "why", "fix", "note", "tip", "body", "goal"}

Range(s) == {s[i] : i \in DOMAIN s}

isFibonacciEffort(value) == value \in Range(FIBONACCI_EFFORT_VALUES)

\* String.prototype.toLowerCase on one token.
LowerTok(c) ==
    CASE c = "Risk" -> "risk"
      [] c = "Auth" -> "auth"
      [] c = DescriptionKey -> "description:"
      [] c = ResolutionKey -> "resolution:"
      [] c = ResolvedByKey -> "resolved by:"
      [] c = ResolvedAtKey -> "resolved at:"
      [] OTHER -> c

ToLowerCase(s) == [i \in DOMAIN s |-> LowerTok(s[i])]

\* \s of the regular expressions and of String.prototype.trim.
IsWs(c) == c \in {SP, NL}

\* \w+ : a token that is a run of word characters.
IsWord(c) == c \in Words \cup LessonCategories \cup ComplexityBiases \cup {CheckMark}

\* The tokens that begin with two asterisks, where the lookahead (?=\*\*|$) stops.
IsStars(c) == c \in {GoalKey, EffortKey, EffortReasonKey, ComplexityBiasKey,
                     UncertaintiesKey, LessonsKey, "**"}

\* `${effort}` and parseInt(.., 10) on the digits of an effort value.
Digits(n) == ToString(n)
IsDigits(c) == \E n \in 0..21 : ToString(n) = c
ParseInt(c) == CHOOSE n \in 0..21 : ToString(n) = c

(***************************************************************************)
(* String helpers                                                          *)
(***************************************************************************)
SubText(s, from, to) == IF from > to THEN <<>> ELSE SubSeq(s, from, to)

\* The least index i >= from with P(s[i]) for the tokens in the set `toks`, or 0.
FirstIn(s, toks, from) ==
    LET I == {i \in from..Len(s) : s[i] \in toks}
    IN  IF I = {} THEN 0 ELSE CHOOSE i \in I : \A j \in I : i <= j

FirstNonWs(s, from) ==
    LET I == {i \in from..Len(s) : ~IsWs(s[i])}
    IN  IF I = {} THEN 0 ELSE CHOOSE i \in I : \A j \in I : i <= j

LastNonWs(s) ==
    LET I == {i \in 1..Len(s) : ~IsWs(s[i])}
    IN  IF I = {} THEN 0 ELSE CHOOSE i \in I : \A j \in I : i >= j

Trim(s) ==
    IF FirstNonWs(s, 1) = 0 THEN <<>> ELSE SubSeq(s, FirstNonWs(s, 1), LastNonWs(s))

\* The end of the line that holds position `from`: the index before the next newline.
LineEnd(s, from) ==
    LET n == FirstIn(s, {NL}, from)
    IN  IF n = 0 THEN Len(s) ELSE n - 1

RECURSIVE SplitLines(_)
SplitLines(s) ==
    LET n == FirstIn(s, {NL}, 1)
    IN  IF n = 0 THEN <<s>>
        ELSE <<SubText(s, 1, n - 1)>> \o SplitLines(SubText(s, n + 1, Len(s)))

RECURSIVE Flatten(_)
Flatten(ss) == IF ss = <<>> THEN <<>> ELSE Head(ss) \o Flatten(Tail(ss))

RECURSIVE JoinLines(_)
JoinLines(ls) ==
    IF ls = <<>> THEN <<>>
    ELSE IF Len(ls) = 1 THEN ls[1]
    ELSE ls[1] \o <<NL>> \o JoinLines(Tail(ls))

StartsWith(s, p) == Len(s) >= Len(p) /\ SubText(s, 1, Len(p)) = p

SelectIdx(s, P(_)) == {i \in DOMAIN s : P(s[i])}

(***************************************************************************)
(* Metadata values                                                         *)
(***************************************************************************)
NoText == <<>>

Uncertainty(title, description, resolution, resolvedBy, resolvedAt) ==
    [title |-> title, description |-> description, resolution |-> resolution,
     resolvedBy |-> resolvedBy, resolvedAt |-> resolvedAt]

Lesson(content, category, tags) ==
    [content |-> content, category |-> category, tags |-> tags]

metadataDefaultEffort == 5

DefaultMetadata ==
    [goal |-> NoText, effort |-> metadataDefaultEffort, effortReason |-> NoText,
     complexityBias |-> NoText, uncertainties |-> <<>>, lessonsLearned |-> <<>>]

(***************************************************************************)
(* buildDescriptionWithMetadata                                            *)
(***************************************************************************)
\* The lines of an uncertainty without its detail lines.
UncertaintyLinesTitleOnly(u) ==
    <<  <<Dash, SP, LBracket, IF u.resolution # NoText THEN CheckMark ELSE SP,
          RBracket, SP>> \o u.title >>

UncertaintyLines(u) ==
    <<  <<Dash, SP, LBracket, IF u.resolution # NoText THEN CheckMark ELSE SP,
          RBracket, SP>> \o u.title >>
    \o (IF u.description # NoText
        THEN << <<SP, SP, Dash, SP, DescriptionKey, SP>> \o u.description >> ELSE <<>>)
    \o (IF u.resolution # NoText
        THEN << <<SP, SP, Dash, SP, ResolutionKey, SP>> \o u.resolution >> ELSE <<>>)
    \o (IF u.resolvedBy # NoText
        THEN << <<SP, SP, Dash, SP, ResolvedByKey, SP>> \o u.resolvedBy >> ELSE <<>>)
    \o (IF u.resolvedAt # NoText
        THEN << <<SP, SP, Dash, SP, ResolvedAtKey, SP>> \o u.resolvedAt >> ELSE <<>>)

LessonLine(l) ==
    <<Dash, SP>>
    \o (IF l.category # NoText THEN <<LBracket>> \o l.category \o <<RBracket>> ELSE <<>>)
    \o <<SP>> \o l.content

buildDescriptionWithMetadata(plainDescription, metadata) ==
    LET lines ==
            << <<METADATA_SEPARATOR>>,
               <<GoalKey, SP>> \o (IF metadata.goal # NoText THEN metadata.goal
                                   ELSE <<NotSpecified>>),
               <<EffortKey, SP, Digits(metadata.effort)>> >>
            \o (IF metadata.effortReason # NoText
                THEN << <<EffortReasonKey, SP>> \o metadata.effortReason >> ELSE <<>>)
            \o (IF metadata.complexityBias # NoText
                THEN << <<ComplexityBiasKey, SP>> \o metadata.complexityBias >> ELSE <<>>)
            \o << <<>>, <<UncertaintiesKey>> >>
            \o Flatten([i \in DOMAIN metadata.uncertainties |->
                            UncertaintyLines(metadata.uncertainties[i])])
            \o << <<>>, <<LessonsKey>> >>
            \o [i \in DOMAIN metadata.lessonsLearned |->
                    LessonLine(metadata.lessonsLearned[i])]
            \o << <<METADATA_END>> >>
    IN  JoinLines(lines) \o <<NL, NL>> \o plainDescription

(***************************************************************************)
(* parseMetadata                                                           *)
(***************************************************************************)
NoMatch == [found |-> FALSE, value |-> <<>>]
Match(v) == [found |-> TRUE, value |-> v]

\* description.match(SEPARATOR([\s\S]*?)END): the text between the first separator
\* that has an end marker after it and the first end marker after that separator.
MetadataMatch(description) ==
    LET I == {i \in DOMAIN description :
                 /\ description[i] = METADATA_SEPARATOR
                 /\ FirstIn(description, {METADATA_END}, i + 1) # 0}
    IN  IF I = {} THEN NoMatch
        ELSE LET i == CHOOSE x \in I : \A y \in I : x <= y
                 j == FirstIn(description, {METADATA_END}, i + 1)
             IN  Match(SubText(description, i + 1, j - 1))

\* text.match(/KEY\s*(.+)/) tried at the occurrence of KEY at position k: greedy
\* blanks, then the rest of the line, which must hold at least one character.
LineAfterKeyAt(text, k) ==
    LET n == FirstNonWs(text, k + 1)
        S == {p \in (k + 1)..Len(text) : text[p] = SP}
    IN  IF n # 0 THEN Match(SubText(text, n, LineEnd(text, n)))
        ELSE IF S = {} THEN NoMatch
        ELSE LET p == CHOOSE x \in S : \A y \in S : x >= y
             IN  Match(SubText(text, p, LineEnd(text, p)))

\* text.match(/KEY\s*(.+)/): the leftmost occurrence of KEY at which it matches.
LineAfterKey(text, key) ==
    LET K == {k \in DOMAIN text : text[k] = key /\ LineAfterKeyAt(text, k).found}
    IN  IF K = {} THEN NoMatch
        ELSE LineAfterKeyAt(text, CHOOSE k \in K : \A y \in K : k <= y)

\* text.match(/\*\*Effort:\*\*\s*(\d+)/)
EffortMatch(text) ==
    LET K == {k \in DOMAIN text :
                 /\ text[k] = EffortKey
                 /\ FirstNonWs(text, k + 1) # 0
                 /\ IsDigits(text[FirstNonWs(text, k + 1)])}
    IN  IF K = {} THEN NoMatch
        ELSE Match(text[FirstNonWs(text, (CHOOSE k \in K : \A y \in K : k <= y) + 1)])

\* The longest run of word tokens of `text` that starts at position n.
RECURSIVE WordRunEnd(_, _)
WordRunEnd(text, n) ==
    IF n < Len(text) /\ IsWord(text[n + 1]) THEN WordRunEnd(text, n + 1) ELSE n

\* text.match(/\*\*Complexity Bias:\*\*\s*(\w+)/)
ComplexityBiasMatch(text) ==
    LET K == {k \in DOMAIN text :
                 /\ text[k] = ComplexityBiasKey
                 /\ FirstNonWs(text, k + 1) # 0
                 /\ IsWord(text[FirstNonWs(text, k + 1)])}
    IN  IF K = {} THEN NoMatch
        ELSE LET n == FirstNonWs(text, (CHOOSE k \in K : \A y \in K : k <= y) + 1)
             IN  Match(SubText(text, n, WordRunEnd(text, n)))

\* text.match(/KEY([\s\S]*?)(?=\*\*|$)/): from KEY to the next token that begins
\* with two asterisks, or to the end of the metadata text.
SectionMatch(text, key) ==
    LET k == FirstIn(text, {key}, 1)
        I == {i \in (k + 1)..Len(text) : IsStars(text[i])}
    IN  IF k = 0 THEN NoMatch
        ELSE IF I = {} THEN Match(SubText(text, k + 1, Len(text)))
        ELSE Match(SubText(text, k + 1, (CHOOSE i \in I : \A j \in I : i <= j) - 1))

\* trimmed.match(/^- \[([ x])\]\s*(.+)$/)
BulletMatch(trimmed) ==
    /\ Len(trimmed) >= 6
    /\ trimmed[1] = Dash /\ trimmed[2] = SP /\ trimmed[3] = LBracket
    /\ trimmed[4] \in {SP, CheckMark} /\ trimmed[5] = RBracket

\* rawLine.match(/^\s*-\s+(?!\[)(.*)$/)
DetailMatch(rawLine) ==
    LET d == FirstNonWs(rawLine, 1)
        n == IF d = 0 THEN 0 ELSE FirstNonWs(rawLine, d + 1)
        blanks == (IF n = 0 THEN Len(rawLine) ELSE n - 1) - d
    IN  IF d = 0 \/ rawLine[d] # Dash \/ blanks = 0 THEN NoMatch
        ELSE IF n = 0 THEN Match(<<>>)
        ELSE IF rawLine[n] # LBracket THEN Match(SubText(rawLine, n, Len(rawLine)))
        ELSE IF blanks = 1 THEN NoMatch
        ELSE Match(SubText(rawLine, n - 1, Len(rawLine)))

\* /^KEY\s*/i.test(detail)
DetailHasKey(detail, key) == detail # <<>> /\ LowerTok(detail[1]) = LowerTok(key)

\* detail.replace(/^KEY\s*/i, '').trim()
DetailValue(detail) == Trim(Tail(detail))

ApplyDetail(current, detail) ==
    IF DetailHasKey(detail, ResolutionKey)
        THEN [current EXCEPT !.resolution = DetailValue(detail)]
    ELSE IF DetailHasKey(detail, ResolvedByKey)
        THEN [current EXCEPT !.resolvedBy = DetailValue(detail)]
    ELSE IF DetailHasKey(detail, ResolvedAtKey)
        THEN [current EXCEPT !.resolvedAt = DetailValue(detail)]
    ELSE IF DetailHasKey(detail, DescriptionKey)
        THEN [current EXCEPT !.description = DetailValue(detail)]
    ELSE [current EXCEPT !.description = detail]

\* flushCurrent: `cur` is <<>> (null) or <<uncertainty, currentResolved>>.
FlushCurrent(acc, cur) ==
    IF cur = <<>> THEN acc
    ELSE IF cur[2] /\ cur[1].resolution = NoText
        THEN Append(acc, [cur[1] EXCEPT !.resolution = <<NoDetails>>])
    ELSE Append(acc, cur[1])

\* The loop over the lines of the uncertainties section.
RECURSIVE ParseUncertaintyLines(_, _, _)
ParseUncertaintyLines(lines, acc, cur) ==
    IF lines = <<>> THEN FlushCurrent(acc, cur)
    ELSE LET rawLine == Head(lines)
             trimmed == Trim(rawLine)
             rest == Tail(lines)
         IN  IF trimmed = <<>> THEN ParseUncertaintyLines(rest, acc, cur)
             ELSE IF BulletMatch(trimmed)
                 THEN ParseUncertaintyLines(rest, FlushCurrent(acc, cur),
                          << Uncertainty(Trim(SubText(trimmed, 6, Len(trimmed))),
                                         NoText, NoText, NoText, NoText),
                             trimmed[4] = CheckMark >>)
             ELSE IF DetailMatch(rawLine).found /\ cur # <<>>
                          /\ Trim(DetailMatch(rawLine).value) # <<>>
                 THEN ParseUncertaintyLines(rest, acc,
                          <<ApplyDetail(cur[1], Trim(DetailMatch(rawLine).value)), cur[2]>>)
             ELSE ParseUncertaintyLines(rest, acc, cur)

\* line.match(/- \[(\w+)\]\s*(.+)/) tried at position i of the line.
CategoryMatchAt(line, i) ==
    /\ i + 3 <= Len(line)
    /\ line[i] = Dash /\ line[i + 1] = SP /\ line[i + 2] = LBracket
    /\ IsWord(line[i + 3])
    /\ WordRunEnd(line, i + 3) + 2 <= Len(line)
    /\ line[WordRunEnd(line, i + 3) + 1] = RBracket

ParseLessonLine(line) ==
    LET I == {i \in DOMAIN line : CategoryMatchAt(line, i)}
    IN  IF I # {}
        THEN LET i == CHOOSE x \in I : \A y \in I : x <= y
                 e == WordRunEnd(line, i + 3)
                 categoryValue == SubText(line, i + 3, e)
                 contentValue == Trim(SubText(line, e + 2, Len(line)))
             IN  IF Len(categoryValue) = 1 /\ categoryValue[1] \in LessonCategories
                     THEN <<Lesson(contentValue, categoryValue, <<>>)>>
                 ELSE IF contentValue # <<>>
                     THEN <<Lesson(contentValue, NoText, <<>>)>>
                 ELSE <<>>
        ELSE LET content == Trim(IF StartsWith(line, <<Dash, SP>>)
                                 THEN SubText(line, 3, Len(line)) ELSE line)
             IN  IF content # <<>> THEN <<Lesson(content, NoText, <<>>)>> ELSE <<>>

ParseLessons(section) ==
    LET lines == SplitLines(section)
    IN  Flatten([i \in DOMAIN lines |->
                    IF StartsWith(Trim(lines[i]), <<Dash, SP>>)
                    THEN ParseLessonLine(lines[i]) ELSE <<>>])

parseMetadata(description) ==
    LET mm == MetadataMatch(description)
        text == mm.value
        goalMatch == LineAfterKey(text, GoalKey)
        effortMatch == EffortMatch(text)
        effortReasonMatch == LineAfterKey(text, EffortReasonKey)
        complexityBiasMatch == ComplexityBiasMatch(text)
        uncertaintiesSection == SectionMatch(text, UncertaintiesKey)
        lessonsSection == SectionMatch(text, LessonsKey)
    IN  IF ~mm.found THEN DefaultMetadata
        ELSE [goal |-> IF goalMatch.found /\ goalMatch.value # <<NotSpecified>>
                       THEN Trim(goalMatch.value) ELSE NoText,
              effort |-> IF effortMatch.found THEN ParseInt(effortMatch.value)
                         ELSE metadataDefaultEffort,
              effortReason |-> IF effortReasonMatch.found
                               THEN Trim(effortReasonMatch.value) ELSE NoText,
              complexityBias |-> IF complexityBiasMatch.found
                                 THEN complexityBiasMatch.value ELSE NoText,
              uncertainties |-> IF uncertaintiesSection.found
                                THEN ParseUncertaintyLines(
                                         SplitLines(uncertaintiesSection.value), <<>>, <<>>)
                                ELSE <<>>,
              lessonsLearned |-> IF lessonsSection.found
                                 THEN ParseLessons(lessonsSection.value) ELSE <<>>]

(***************************************************************************)
(* extractPlainDescription                                                 *)
(***************************************************************************)
\* description.replace(/SEPARATOR[\s\S]*?END\n\n/, '').trim(): the leftmost
\* separator that has, after it, an end marker followed by two newlines, up to the
\* first such end marker.
BlockEnds(description, i) ==
    {j \in (i + 1)..Len(description) :
        /\ description[j] = METADATA_END
        /\ j + 2 <= Len(description)
        /\ description[j + 1] = NL /\ description[j + 2] = NL}

extractPlainDescription(description) ==
    LET I == {i \in DOMAIN description :
                 description[i] = METADATA_SEPARATOR /\ BlockEnds(description, i) # {}}
    IN  IF I = {} THEN Trim(description)
        ELSE LET i == CHOOSE x \in I : \A y \in I : x <= y
                 J == BlockEnds(description, i)
                 j == CHOOSE x \in J : \A y \in J : x <= y
             IN  Trim(SubText(description, 1, i - 1)
                      \o SubText(description, j + 3, Len(description)))

(***************************************************************************)
(* The Linear workspace the service talks to, and the configuration        *)
(***************************************************************************)
\* The labels that exist in the team (addLabelsToIssue skips any other name).
EffortLabel(effort) == <<"effort:", Digits(effort)>>
NeedsDecompositionLabel == <<"needs-decomposition">>
UserLabels == {<<"bug">>, <<"ui">>}
TeamLabels ==
    {EffortLabel(e) : e \in Range(FIBONACCI_EFFORT_VALUES)}
        \cup {NeedsDecompositionLabel} \cup UserLabels

\* The types of the team's workflow states; every state is named after its type.
TeamStateTypes == {"backlog", "unstarted", "started", "completed", "canceled"}
\* The state a new issue gets, by name.
DefaultStateName == "Backlog"

TaskStatuses == {"backlog", "todo", "in-progress", "in-review", "done", "canceled"}

\* config.projects and config.defaultProject of the orchestrator under check.
ConfiguredProjects == {"app"}
ConfiguredDefault == ""
NoProject == ""

NoError == "none"

\* The running state of one handler: the issues of the workspace, the calls made
\* on the LinearService, the messages logged, the error thrown (if any) and the
\* value returned.
Ctx(issues, calls, logs, err, out) ==
    [issues |-> issues, calls |-> calls, logs |-> logs, err |-> err, out |-> out]

Ok(c) == c.err = NoError
Raise(c, e) == [c EXCEPT !.err = e]
Called(c, method, id) == [c EXCEPT !.calls = Append(@, [method |-> method, task |-> id])]
\* A logged message: its kind and the task it names (0: none).
Msg(kind, task) == [msg |-> kind, task |-> task]
Msgs(kinds) == [i \in DOMAIN kinds |-> Msg(kinds[i], 0)]
Logged(c, kinds) == [c EXCEPT !.logs = @ \o Msgs(kinds)]
HasLog(logs, kind) == \E i \in DOMAIN logs : logs[i].msg = kind
Returning(c, out) == [c EXCEPT !.out = out]

\* v bound to a name: F(v).
Let(v, F(_)) == F(v)

Contains(s, x) == \E i \in DOMAIN s : s[i] = x

RECURSIVE FilterOut(_, _)
FilterOut(s, x) ==
    IF s = <<>> THEN <<>>
    ELSE IF Head(s) = x THEN FilterOut(Tail(s), x)
    ELSE <<Head(s)>> \o FilterOut(Tail(s), x)

(***************************************************************************)
(* LinearService: helpers                                                  *)
(***************************************************************************)
normalizeCandidate(candidate) ==
    IF Trim(candidate.title) = <<>> THEN <<>>
    ELSE << Uncertainty(Trim(candidate.title), Trim(candidate.description),
                        Trim(candidate.resolution), Trim(candidate.resolvedBy),
                        Trim(candidate.resolvedAt)) >>

normalizeUncertainties(input) ==
    Flatten([i \in DOMAIN input |-> normalizeCandidate(input[i])])

needsDecomposition(effort) == effort > 3

mapLinearStateToStatus(stateName) ==
    CASE stateName \in {"Backlog"} -> "backlog"
      [] stateName \in {"Todo", "Planned"} -> "todo"
      [] stateName \in {"In Progress", "Started"} -> "in-progress"
      [] stateName \in {"In Review"} -> "in-review"
      [] stateName \in {"Done", "Completed"} -> "done"
      [] stateName \in {"Canceled"} -> "canceled"
      [] OTHER -> "todo"

\* The name of the team's state of a given type.
StateNameOfType(type) ==
    CASE type = "backlog" -> "Backlog"
      [] type = "unstarted" -> "Todo"
      [] type = "started" -> "In Progress"
      [] type = "completed" -> "Done"
      [] type = "canceled" -> "Canceled"
      [] OTHER -> "Todo"

stateTypeMap(status) ==
    CASE status = "backlog" -> <<"backlog">>
      [] status = "todo" -> <<"unstarted", "planned">>
      [] status = "in-progress" -> <<"started">>
      [] status = "in-review" -> <<"review">>
      [] status = "done" -> <<"completed">>
      [] status = "canceled" -> <<"canceled">>
      [] OTHER -> <<>>

\* getStateIdForStatus: the team's state whose type is a target type, or "" (null).
getStateIdForStatus(status) ==
    LET T == {t \in Range(stateTypeMap(status)) : t \in TeamStateTypes}
    IN  IF T = {} THEN "" ELSE StateNameOfType(CHOOSE t \in T : TRUE)

\* addLabelsToIssue: the issue's labels, then each named label the team has and
\* the issue does not carry yet.
RECURSIVE AddLabelIds(_, _)
AddLabelIds(labelIds, labelNames) ==
    IF labelNames = <<>> THEN labelIds
    ELSE IF Head(labelNames) \in TeamLabels /\ ~Contains(labelIds, Head(labelNames))
        THEN AddLabelIds(Append(labelIds, Head(labelNames)), Tail(labelNames))
    ELSE AddLabelIds(labelIds, Tail(labelNames))

addLabelsToIssue(issues, issueId, labelNames) ==
    [issues EXCEPT ![issueId].labels = AddLabelIds(@, labelNames)]

\* removeLabelFromIssue leaving the labels of the issue as they are.
removeLabelFromIssueKept(issues, issueId, labelName) == issues

removeLabelFromIssue(issues, issueId, labelName) ==
    IF Contains(issues[issueId].labels, labelName)
    THEN [issues EXCEPT ![issueId].labels = FilterOut(@, labelName)]
    ELSE issues

RECURSIVE RemoveEach(_, _, _)
RemoveEach(issues, issueId, names) ==
    IF names = <<>> THEN issues
    ELSE RemoveEach(removeLabelFromIssue(issues, issueId, Head(names)), issueId, Tail(names))

setLabelsOnIssue(issues, issueId, labelNames) ==
    addLabelsToIssue(RemoveEach(issues, issueId, issues[issueId].labels), issueId, labelNames)

TaskOf(id, issue, metadata) ==
    [taskID |-> id,
     title |-> issue.title,
     description |-> extractPlainDescription(issue.description),
     goal |-> metadata.goal,
     effort |-> metadata.effort,
     effortReason |-> metadata.effortReason,
     complexityBias |-> metadata.complexityBias,
     status |-> mapLinearStateToStatus(issue.state),
     project |-> issue.project,
     parentTaskID |-> issue.parent,
     uncertainties |-> metadata.uncertainties,
     lessonsLearned |-> metadata.lessonsLearned,
     labels |-> issue.labels,
     subtasks |-> <<>>]

issueToTask(issues, id) == TaskOf(id, issues[id], parseMetadata(issues[id].description))

\* client.createIssue storing another parent link than the one it is given.
NewIssueOtherParent(title, description, parent, project, estimate) ==
    [title |-> title, description |-> description, labels |-> <<>>,
     state |-> DefaultStateName, parent |-> parent + parent, project |-> project,
     estimate |-> estimate]

\* client.createIssue: the new issue is appended; its id is its position.
NewIssue(title, description, parent, project, estimate) ==
    [title |-> title, description |-> description, labels |-> <<>>,
     state |-> DefaultStateName, parent |-> parent, project |-> project,
     estimate |-> estimate]

CreationLabels(labels, effort) ==
    labels \o <<EffortLabel(effort)>>
        \o (IF needsDecomposition(effort) THEN <<NeedsDecompositionLabel>> ELSE <<>>)

CreationDescription(input) ==
    buildDescriptionWithMetadata(input.description,
        [goal |-> input.goal, effort |-> input.effort,
         effortReason |-> input.effortReason, complexityBias |-> input.complexityBias,
         uncertainties |-> normalizeUncertainties(input.uncertainties),
         lessonsLearned |-> <<>>])

ProjectIdOf(project) == IF project \in ConfiguredProjects THEN project ELSE NoProject

(***************************************************************************)
(* LinearService: methods.  Each takes the running state c of the handler  *)
(* and gives the state after the call.                                     *)
(***************************************************************************)
LinearGetTask(c, taskID) ==
    LET c1 == Called(c, "getTask", taskID)
    IN  IF taskID \in DOMAIN c.issues
        THEN Returning(c1, <<issueToTask(c.issues, taskID)>>)
        ELSE Returning(c1, <<>>)

\* createIssue, then addLabelsToIssue: the workspace with the new issue.
CreateIssue(issues, input, parentId, project, estimate, labels) ==
    addLabelsToIssue(
        Append(issues, NewIssue(input.title, CreationDescription(input), parentId,
                                project, estimate)),
        Len(issues) + 1, CreationLabels(labels, input.effort))

LinearCreateTask(c, input) ==
    IF ~isFibonacciEffort(input.effort)
    THEN Raise(Called(c, "createTask", Len(c.issues) + 1), "InvalidEffort")
    ELSE Let(CreateIssue(c.issues, input, 0, ProjectIdOf(input.project), input.effort,
                         input.labels),
             LAMBDA labelled :
                 Returning([Called(c, "createTask", Len(c.issues) + 1)
                               EXCEPT !.issues = labelled],
                           <<issueToTask(labelled, Len(labelled))>>))

MaxBatchSize == 50

\* The validation of dependsOnBatchIndex with the forward check made first.
RECURSIVE BatchIndexErrorForwardFirst(_, _, _)
BatchIndexErrorForwardFirst(batchIndexes, i, size) ==
    IF batchIndexes = <<>> THEN NoError
    ELSE IF Head(batchIndexes) > i THEN "ForwardDependency"
    ELSE IF Head(batchIndexes) >= size THEN "BatchIndexOutOfRange"
    ELSE IF Head(batchIndexes) = i THEN "SelfDependency"
    ELSE BatchIndexErrorForwardFirst(Tail(batchIndexes), i, size)

\* The validation of dependsOnBatchIndex without the forward check.
RECURSIVE BatchIndexErrorNoForward(_, _, _)
BatchIndexErrorNoForward(batchIndexes, i, size) ==
    IF batchIndexes = <<>> THEN NoError
    ELSE IF Head(batchIndexes) >= size THEN "BatchIndexOutOfRange"
    ELSE IF Head(batchIndexes) = i THEN "SelfDependency"
    ELSE BatchIndexErrorNoForward(Tail(batchIndexes), i, size)

\* The first error of the validation loop of LinearService.batchCreateTasks over the
\* entries idx of one item's dependsOnBatchIndex (0-based positions), or NoError.
RECURSIVE BatchIndexError(_, _, _)
BatchIndexError(batchIndexes, i, size) ==
    IF batchIndexes = <<>> THEN NoError
    ELSE IF Head(batchIndexes) >= size THEN "BatchIndexOutOfRange"
    ELSE IF Head(batchIndexes) = i THEN "SelfDependency"
    ELSE IF Head(batchIndexes) > i THEN "ForwardDependency"
    ELSE BatchIndexError(Tail(batchIndexes), i, size)

\* Step 1 of LinearService.batchCreateTasks for the item at 0-based position i.
BatchItemError(tasks, i) ==
    LET task == tasks[i + 1]
    IN  IF ~isFibonacciEffort(task.effort) THEN "InvalidEffort"
        ELSE IF task.effort > 3 /\ normalizeUncertainties(task.uncertainties) = <<>>
            THEN "MissingUncertainties"
        ELSE BatchIndexError(task.dependsOnBatchIndex, i, Len(tasks))

RECURSIVE BatchValidation(_, _)
BatchValidation(tasks, i) ==
    IF i >= Len(tasks) THEN NoError
    ELSE IF BatchItemError(tasks, i) # NoError THEN BatchItemError(tasks, i)
    ELSE BatchValidation(tasks, i + 1)

\* Step 2: one issue per item, in order.
RECURSIVE BatchCreateEach(_, _, _)
BatchCreateEach(issues, tasks, out) ==
    IF tasks = <<>> THEN [issues |-> issues, out |-> out]
    ELSE Let(CreateIssue(issues, Head(tasks), 0, ProjectIdOf(Head(tasks).project),
                         Head(tasks).effort, Head(tasks).labels),
             LAMBDA labelled :
                 BatchCreateEach(labelled, Tail(tasks),
                                 Append(out, issueToTask(labelled, Len(labelled)))))

LinearBatchCreateTasks(c, tasks) ==
    IF tasks = <<>> THEN Returning(Called(c, "batchCreateTasks", 0), <<>>)
    ELSE IF Len(tasks) > MaxBatchSize
        THEN Raise(Called(c, "batchCreateTasks", 0), "BatchTooLarge")
    ELSE IF BatchValidation(tasks, 0) # NoError
        THEN Raise(Called(c, "batchCreateTasks", 0), BatchValidation(tasks, 0))
    ELSE Let(BatchCreateEach(c.issues, tasks, <<>>),
             LAMBDA done :
                 Returning([Called(c, "batchCreateTasks", 0) EXCEPT !.issues = done.issues],
                           done.out))

\* The loop of LinearService.decomposeTask over the subtasks: it stops at the first
\* subtask whose effort is invalid, after the earlier ones were created.
RECURSIVE DecomposeEach(_, _, _, _)
DecomposeEach(issues, parentId, subtasks, out) ==
    IF subtasks = <<>> THEN [issues |-> issues, out |-> out, err |-> NoError]
    ELSE IF ~isFibonacciEffort(Head(subtasks).effort)
        THEN [issues |-> issues, out |-> out, err |-> "InvalidEffort"]
    ELSE Let(CreateIssue(issues, Head(subtasks), parentId, issues[parentId].project, 0, <<>>),
             LAMBDA labelled :
                 DecomposeEach(labelled, parentId, Tail(subtasks),
                               Append(out, issueToTask(labelled, Len(labelled)))))

LinearDecomposeTask(c, input) ==
    IF input.taskID \notin DOMAIN c.issues
    THEN Raise(Called(c, "decomposeTask", input.taskID), "TaskNotFound")
    ELSE IF ~needsDecomposition(parseMetadata(c.issues[input.taskID].description).effort)
        THEN Raise(Called(c, "decomposeTask", input.taskID), "NoDecompositionNeeded")
    ELSE Let(DecomposeEach(c.issues, input.taskID, input.subtasks, <<>>),
             LAMBDA done :
                 IF done.err # NoError
                 THEN Raise([Called(c, "decomposeTask", input.taskID)
                                EXCEPT !.issues = done.issues], done.err)
                 ELSE Returning(
                          [Called(c, "decomposeTask", input.taskID) EXCEPT
                              !.issues = removeLabelFromIssue(done.issues, input.taskID,
                                                              NeedsDecompositionLabel)],
                          done.out))

\* A TaskPatch: status "" and the flags say which fields are absent.
TaskPatch(taskID, status, hasDescription, description, hasLabels, labels) ==
    [taskID |-> taskID, status |-> status, hasDescription |-> hasDescription,
     description |-> description, hasLabels |-> hasLabels, labels |-> labels]

\* updateTask writing the given description over the whole stored description.
PatchedIssueBare(issue, patch) ==
    [issue EXCEPT
        !.state = IF patch.status # "" THEN getStateIdForStatus(patch.status) ELSE @,
        !.description = IF patch.hasDescription THEN patch.description ELSE @]

\* The fields of the issue that updateTask writes, one after the other.
PatchedIssue(issue, patch) ==
    [issue EXCEPT
        !.state = IF patch.status # "" THEN getStateIdForStatus(patch.status) ELSE @,
        !.description = IF patch.hasDescription
                        THEN buildDescriptionWithMetadata(patch.description,
                                                          parseMetadata(@))
                        ELSE @]

LinearUpdateTask(c, patch) ==
    IF patch.status # "" /\ getStateIdForStatus(patch.status) = ""
    THEN Raise(Called(c, "updateTask", patch.taskID), "NoWorkflowState")
    ELSE IF patch.taskID \notin DOMAIN c.issues
        THEN Raise(Called(c, "updateTask", patch.taskID), "TaskNotFound")
    ELSE Let(Let([c.issues EXCEPT ![patch.taskID] = PatchedIssue(@, patch)],
                 LAMBDA updated :
                     IF patch.hasLabels
                     THEN setLabelsOnIssue(updated, patch.taskID, patch.labels)
                     ELSE updated),
             LAMBDA labelled :
                 Returning([Called(c, "updateTask", patch.taskID) EXCEPT !.issues = labelled],
                           <<issueToTask(labelled, patch.taskID)>>))

\* The metadata with the fields of the payload written over it.
EffortMetadata(metadata, payload) ==
    [metadata EXCEPT
        !.effort = IF payload.effort # 0 THEN payload.effort ELSE @,
        !.effortReason = IF payload.effortReason # NoText THEN payload.effortReason ELSE @,
        !.complexityBias = IF payload.complexityBias # NoText
                           THEN payload.complexityBias ELSE @]

\* The labels of an issue without the effort labels and needs-decomposition.
retainedLabels(existingLabelNames) ==
    SelectSeq(existingLabelNames,
              LAMBDA label : label[1] # "effort:" /\ label # NeedsDecompositionLabel)

\* The payload of updateTaskEffort: effort 0 and the empty texts are absent fields.
LinearUpdateTaskEffort(c, taskID, payload) ==
    IF payload.effort = 0 /\ payload.effortReason = NoText /\ payload.complexityBias = NoText
    THEN Called(c, "updateTaskEffort", taskID)
    ELSE IF payload.effort # 0 /\ ~isFibonacciEffort(payload.effort)
        THEN Raise(Called(c, "updateTaskEffort", taskID), "InvalidEffort")
    ELSE IF taskID \notin DOMAIN c.issues
        THEN Raise(Called(c, "updateTaskEffort", taskID), "TaskNotFound")
    ELSE Let([c.issues EXCEPT
                 ![taskID].description =
                     buildDescriptionWithMetadata(extractPlainDescription(@),
                         EffortMetadata(parseMetadata(@), payload)),
                 ![taskID].estimate = IF payload.effort # 0 THEN payload.effort ELSE @],
             LAMBDA updated :
                 [Called(c, "updateTaskEffort", taskID) EXCEPT
                     !.issues =
                         IF payload.effort # 0
                         THEN setLabelsOnIssue(updated, taskID,
                                  CreationLabels(retainedLabels(updated[taskID].labels),
                                                 payload.effort))
                         ELSE updated])

\* The loop of addUncertainties over the normalized inputs; `seen` is the set of
\* normalized titles.
RECURSIVE MergeUncertainties(_, _, _)
MergeUncertainties(existing, seen, inputs) ==
    IF inputs = <<>> THEN existing
    ELSE LET normalizedTitle == Trim(Head(inputs).title)
         IN  IF normalizedTitle = <<>> \/ ToLowerCase(normalizedTitle) \in seen
             THEN MergeUncertainties(existing, seen, Tail(inputs))
             ELSE MergeUncertainties(
                      Append(existing, Uncertainty(normalizedTitle, Head(inputs).description,
                                                   NoText, NoText, NoText)),
                      seen \cup {ToLowerCase(normalizedTitle)}, Tail(inputs))

\* The titles of the stored uncertainties as they are.
existingTitlesAsStored(uncertainties) ==
    {uncertainties[i].title : i \in DOMAIN uncertainties}

\* The titles of the stored uncertainties, trimmed and in lower case.
normalizedExistingTitles(uncertainties) ==
    {ToLowerCase(Trim(uncertainties[i].title)) : i \in DOMAIN uncertainties}

\* The metadata with the new uncertainties merged in.
MergedMetadata(metadata, normalizedInputs) ==
    [metadata EXCEPT !.uncertainties =
        MergeUncertainties(@, normalizedExistingTitles(@), normalizedInputs)]

LinearAddUncertainties(c, taskID, uncertainties) ==
    IF normalizeUncertainties(uncertainties) = <<>> THEN Called(c, "addUncertainties", taskID)
    ELSE IF taskID \notin DOMAIN c.issues
        THEN Raise(Called(c, "addUncertainties", taskID), "TaskNotFound")
    ELSE [Called(c, "addUncertainties", taskID) EXCEPT
             !.issues[taskID].description =
                 buildDescriptionWithMetadata(extractPlainDescription(@),
                     MergedMetadata(parseMetadata(@), normalizeUncertainties(uncertainties)))]

\* find by the trimmed, lower-cased title.
FindByNormalTitle(uncertainties, uncertaintyTitle) ==
    LET I == {i \in DOMAIN uncertainties :
                 ToLowerCase(Trim(uncertainties[i].title)) = ToLowerCase(Trim(uncertaintyTitle))}
    IN  IF I = {} THEN 0 ELSE CHOOSE i \in I : \A j \in I : i <= j

\* metadata.uncertainties.find((u) => u.title === uncertaintyTitle): its index, or 0.
FindByTitle(uncertainties, uncertaintyTitle) ==
    LET I == {i \in DOMAIN uncertainties : uncertainties[i].title = uncertaintyTitle}
    IN  IF I = {} THEN 0 ELSE CHOOSE i \in I : \A j \in I : i <= j

\* The metadata with uncertainty k resolved.
ResolvedMetadata(metadata, k, resolution) ==
    [metadata EXCEPT !.uncertainties[k].resolution = resolution,
                     !.uncertainties[k].resolvedAt = <<Now>>]

LinearResolveUncertainty(c, taskID, uncertaintyTitle, resolution) ==
    IF taskID \notin DOMAIN c.issues
    THEN Raise(Called(c, "resolveUncertainty", taskID), "TaskNotFound")
    ELSE Let(parseMetadata(c.issues[taskID].description),
             LAMBDA metadata :
                 Let(FindByTitle(metadata.uncertainties, uncertaintyTitle),
                     LAMBDA k :
                         IF k = 0
                         THEN Raise(Called(c, "resolveUncertainty", taskID),
                                    "UncertaintyNotFound")
                         ELSE [Called(c, "resolveUncertainty", taskID) EXCEPT
                                  !.issues[taskID].description =
                                      buildDescriptionWithMetadata(
                                          extractPlainDescription(@),
                                          ResolvedMetadata(metadata, k, resolution))]))

\* The metadata with one more lesson unless it is stored already.
LessonMetadataOnce(metadata, lesson) ==
    IF \E i \in DOMAIN metadata.lessonsLearned : metadata.lessonsLearned[i] = lesson
    THEN metadata
    ELSE [metadata EXCEPT !.lessonsLearned = Append(@, lesson)]

\* The metadata with one more lesson.
LessonMetadata(metadata, lesson) == [metadata EXCEPT !.lessonsLearned = Append(@, lesson)]

LinearAddLessonLearned(c, taskID, lesson) ==
    IF taskID \notin DOMAIN c.issues
    THEN Raise(Called(c, "addLessonLearned", taskID), "TaskNotFound")
    ELSE [Called(c, "addLessonLearned", taskID) EXCEPT
             !.issues[taskID].description =
                 buildDescriptionWithMetadata(extractPlainDescription(@),
                     LessonMetadata(parseMetadata(@), lesson))]

(***************************************************************************)
(* Domain policies                                                         *)
(***************************************************************************)
\* Names that every plain object inherits from Object.prototype, among them the
\* project map that JSON.parse and z.record build.
ObjectPrototypeKeys == {"constructor", "toString"}

\* this.projects[key] is truthy: key is a configured project or an inherited name.
HasProject(projects, key) == key \in projects \/ key \in ObjectPrototypeKeys

\* ProjectResolver.resolve; requested "" is an omitted project.
ProjectResolverResolve(projects, defaultProject, requested) ==
    IF requested # NoProject
    THEN IF ~HasProject(projects, requested)
         THEN [err |-> "UnknownProject", key |-> NoProject, logs |-> <<>>]
         ELSE [err |-> NoError, key |-> requested, logs |-> <<>>]
    ELSE IF defaultProject # NoProject /\ HasProject(projects, defaultProject)
         THEN [err |-> NoError, key |-> defaultProject, logs |-> <<>>]
    ELSE IF Cardinality(projects) = 1
         THEN [err |-> NoError, key |-> CHOOSE k \in projects : TRUE,
               logs |-> <<"info: defaulting to the sole project">>]
    ELSE IF Cardinality(projects) > 1
         THEN [err |-> NoError, key |-> NoProject,
               logs |-> <<"warn: multiple projects configured">>]
    ELSE [err |-> NoError, key |-> NoProject, logs |-> <<>>]

\* assertValidEffort without its check.
assertValidEffortLax(effort) == NoError

\* assertValidEffort / assertSubtaskEffort: the error thrown, or NoError.
assertValidEffort(effort) == IF isFibonacciEffort(effort) THEN NoError ELSE "InvalidEffort"

\* validateEffortReason: the warning, as a list of at most one message.
validateEffortReason(effort, effortReason) ==
    IF effort > 3 /\ effortReason = NoText THEN <<"effortReason missing">> ELSE <<>>

\* validateForCreation asking every task for an uncertainty, whatever its effort.
validateForCreationAnyEffort(effort, uncertainties) ==
    IF Len(uncertainties) = 0 THEN "MissingUncertainties" ELSE NoError

\* validateForCreation without its check.
validateForCreationLax(effort, uncertainties) == NoError

\* UncertaintyPolicy.validateForCreation: the error thrown, or NoError.
validateForCreation(effort, uncertainties) ==
    IF ~needsDecomposition(effort) THEN NoError
    ELSE IF Len(uncertainties) = 0 THEN "MissingUncertainties"
    ELSE NoError

\* The count of the uncertainties without a resolution, resolvedAt ignored.
UnresolvedCountByResolution(task) ==
    Cardinality({i \in DOMAIN task.uncertainties : task.uncertainties[i].resolution = NoText})

UnresolvedCount(task) ==
    Cardinality({i \in DOMAIN task.uncertainties :
                    /\ task.uncertainties[i].resolution = NoText
                    /\ task.uncertainties[i].resolvedAt = NoText})

\* UncertaintyPolicy.handleDecompositionGuard: the error thrown and the warnings.
handleDecompositionGuard(policyMode, task) ==
    IF policyMode = "off" THEN [err |-> NoError, logs |-> <<>>]
    ELSE IF UnresolvedCount(task) = 0 THEN [err |-> NoError, logs |-> <<>>]
    ELSE IF policyMode = "block" THEN [err |-> "UnresolvedUncertainties", logs |-> <<>>]
    ELSE [err |-> NoError, logs |-> <<"warn: unresolved uncertainties">>]

\* isEntireTreeDone looking only at the subtasks it was handed, never loading one.
RECURSIVE isEntireTreeDoneUnloaded(_, _)
isEntireTreeDoneUnloaded(task, loader) ==
    IF task.status # "done" THEN FALSE
    ELSE IF task.subtasks = <<>> THEN TRUE
    ELSE \A i \in DOMAIN task.subtasks :
            isEntireTreeDoneUnloaded(task.subtasks[i], loader)

\* isEntireTreeDone(task, loader); loader[id] is <<task>> or <<>> (null).
RECURSIVE isEntireTreeDone(_, _)
isEntireTreeDone(task, loader) ==
    IF task.status # "done" THEN FALSE
    ELSE IF task.subtasks = <<>> THEN TRUE
    ELSE \A i \in DOMAIN task.subtasks :
            LET subtask == task.subtasks[i]
                enriched == IF subtask.subtasks # <<>> THEN subtask
                            ELSE IF loader[subtask.taskID] # <<>>
                                THEN loader[subtask.taskID][1]
                            ELSE subtask
            IN  isEntireTreeDone(enriched, loader)

(***************************************************************************)
(* applyTaskUpdates                                                        *)
(***************************************************************************)
Then(c, F(_)) == IF Ok(c) THEN F(c) ELSE c

RECURSIVE Dedupe(_, _)
Dedupe(s, acc) ==
    IF s = <<>> THEN acc
    ELSE IF Contains(acc, Head(s)) THEN Dedupe(Tail(s), acc)
    ELSE Dedupe(Tail(s), Append(acc, Head(s)))

RECURSIVE AddLessons(_, _, _)
AddLessons(c, taskID, lessons) ==
    IF lessons = <<>> \/ ~Ok(c) THEN c
    ELSE AddLessons(LinearAddLessonLearned(c, taskID, Head(lessons)), taskID, Tail(lessons))

RECURSIVE ResolveEach(_, _, _)
ResolveEach(c, taskID, resolutions) ==
    IF resolutions = <<>> \/ ~Ok(c) THEN c
    ELSE ResolveEach(
             LinearResolveUncertainty(c, taskID, Head(resolutions).title,
                                      Head(resolutions).resolution),
             taskID, Tail(resolutions))

\* The `set` block; c.out holds the local variable `task`.
ApplySet(c, taskID, set) ==
    LET hasStandardUpdates == set.status # "" \/ set.hasDescription
        c1 == IF hasStandardUpdates
              THEN LinearUpdateTask(c, TaskPatch(taskID, set.status, set.hasDescription,
                                                 set.description, FALSE, <<>>))
              ELSE c
    IN  IF ~set.present THEN c
        ELSE Then(c1, LAMBDA x :
                 IF set.effort # 0 \/ set.effortReason # NoText \/ set.complexityBias # NoText
                 THEN LinearUpdateTaskEffort(x, taskID,
                          [effort |-> set.effort, effortReason |-> set.effortReason,
                           complexityBias |-> set.complexityBias])
                 ELSE x)

\* The `add` block.
ApplyAdd(c, taskID, add) ==
    LET c1 == AddLessons(c, taskID, add.lessonsLearned)
        c2 == Then(c1, LAMBDA x :
                  IF Len(add.uncertainties) > 0
                  THEN LinearAddUncertainties(x, taskID, add.uncertainties) ELSE x)
    IN  IF ~add.present THEN c
        ELSE Then(c2, LAMBDA x :
                 IF Len(add.labels) > 0
                 THEN LinearUpdateTask(x, TaskPatch(taskID, "", FALSE, <<>>, TRUE,
                                          Dedupe(x.out[1].labels \o add.labels, <<>>)))
                 ELSE x)

\* The `remove` block.
ApplyRemove(c, taskID, remove) ==
    IF ~remove.hasLabels THEN c
    ELSE LinearUpdateTask(c, TaskPatch(taskID, "", FALSE, <<>>, TRUE,
                 SelectSeq(c.out[1].labels, LAMBDA label : ~Contains(remove.labels, label))))

\* The end of the loop body: the task is read again.
Reloaded(c, taskID) ==
    Let(LinearGetTask(c, taskID),
        LAMBDA x : IF x.out = <<>> THEN Raise(x, "TaskNotFoundAfterUpdate") ELSE x)

\* The body of the loop of applyTaskUpdates for one record.
ApplyRecord(c, taskUpdate) ==
    Let(LinearGetTask(c, taskUpdate.taskID),
        LAMBDA c1 :
            IF c1.out = <<>> THEN Raise(c1, "TaskNotFound")
            ELSE Then(Then(Then(Then(ApplySet(c1, taskUpdate.taskID, taskUpdate.set),
                     LAMBDA x : ApplyAdd(x, taskUpdate.taskID, taskUpdate.add)),
                     LAMBDA x : ApplyRemove(x, taskUpdate.taskID, taskUpdate.remove)),
                     LAMBDA x : ResolveEach(x, taskUpdate.taskID, taskUpdate.resolve)),
                     LAMBDA x : Reloaded(x, taskUpdate.taskID)))

\* applyTaskUpdates undoing the writes of the record that fails.
RECURSIVE ApplyRecordsUndoing(_, _, _)
ApplyRecordsUndoing(c, records, updatedTasks) ==
    IF records = <<>> THEN Returning(c, updatedTasks)
    ELSE Let(ApplyRecord(c, Head(records)),
             LAMBDA c1 :
                 IF ~Ok(c1) THEN Returning([c1 EXCEPT !.issues = c.issues], <<>>)
                 ELSE ApplyRecordsUndoing(c1, Tail(records), updatedTasks \o c1.out))

RECURSIVE ApplyRecords(_, _, _)
ApplyRecords(c, records, updatedTasks) ==
    IF records = <<>> THEN Returning(c, updatedTasks)
    ELSE Let(ApplyRecord(c, Head(records)),
             LAMBDA c1 :
                 IF ~Ok(c1) THEN Returning(c1, <<>>)
                 ELSE ApplyRecords(c1, Tail(records), updatedTasks \o c1.out))

applyTaskUpdates(c, input) == ApplyRecords(c, input, <<>>)

(***************************************************************************)
(* WorkflowOrchestrator                                                    *)
(***************************************************************************)
\* The first error of a list of errors, or NoError.
RECURSIVE FirstError(_)
FirstError(errs) ==
    IF errs = <<>> THEN NoError
    ELSE IF Head(errs) # NoError THEN Head(errs)
    ELSE FirstError(Tail(errs))

\* The validation of one creation input: assertValidEffort, then validateForCreation.
CreationError(input) ==
    IF assertValidEffort(input.effort) # NoError THEN assertValidEffort(input.effort)
    ELSE validateForCreation(input.effort, input.uncertainties)

HighUncertaintyThreshold == 3

\* The input with the resolved project written into it.
WithProject(input, key) ==
    IF key # NoProject /\ key # input.project THEN [input EXCEPT !.project = key] ELSE input

\* createTask with the high-uncertainty advisory outside the test of the effort.
CreateResolvedEscalatingAlways(c, createInput) ==
    IF CreationError(createInput) # NoError THEN Raise(c, CreationError(createInput))
    ELSE Let(LinearCreateTask(
                 Logged(c, validateEffortReason(createInput.effort, createInput.effortReason)
                           \o (IF createInput.effort < 3 THEN <<"low effort">> ELSE <<>>)),
                 createInput),
             LAMBDA c3 :
                 IF ~Ok(c3) THEN c3
                 ELSE Logged(c3, (IF needsDecomposition(createInput.effort)
                                  THEN <<"requires decomposition">> ELSE <<>>)
                              \o (IF Len(createInput.uncertainties) >= HighUncertaintyThreshold
                                  THEN <<"high uncertainty count">> ELSE <<>>)))

\* createTask from the validation on; c carries the resolver's messages.
CreateResolved(c, createInput) ==
    IF CreationError(createInput) # NoError THEN Raise(c, CreationError(createInput))
    ELSE Let(LinearCreateTask(
                 Logged(c, validateEffortReason(createInput.effort, createInput.effortReason)
                           \o (IF createInput.effort < 3 THEN <<"low effort">> ELSE <<>>)),
                 createInput),
             LAMBDA c3 :
                 IF ~Ok(c3) THEN c3
                 ELSE IF needsDecomposition(createInput.effort)
                     THEN Logged(c3, <<"requires decomposition">>
                              \o (IF Len(createInput.uncertainties) >= HighUncertaintyThreshold
                                  THEN <<"high uncertainty count">> ELSE <<>>))
                 ELSE c3)

OrchCreateTask(c, input) ==
    Let(ProjectResolverResolve(ConfiguredProjects, ConfiguredDefault, input.project),
        LAMBDA resolved :
            IF resolved.err # NoError THEN Raise(c, resolved.err)
            ELSE CreateResolved(Logged(c, resolved.logs), WithProject(input, resolved.key)))

\* tasks.map(...) of batchCreateTasks: the project of each item resolved.
ResolvedBatchItem(task) ==
    Let(ProjectResolverResolve(ConfiguredProjects, ConfiguredDefault, task.project),
        LAMBDA resolved :
            [err |-> resolved.err, logs |-> resolved.logs,
             task |-> IF resolved.err = NoError /\ resolved.key # NoProject
                      THEN [task EXCEPT !.project = resolved.key] ELSE task])

\* The warnings of validateEffortReason over a list of inputs.
EffortReasonWarnings(tasks) ==
    Flatten([i \in DOMAIN tasks |->
                validateEffortReason(tasks[i].effort, tasks[i].effortReason)])

\* The first error of the creation policies over a list of inputs, or NoError.
PolicyError(tasks) == FirstError([i \in DOMAIN tasks |-> CreationError(tasks[i])])

\* batchCreateTasks from the validation on; c carries the resolver's messages.
BatchResolved(c, tasksWithResolvedProjects) ==
    IF PolicyError(tasksWithResolvedProjects) # NoError
    THEN Raise(c, PolicyError(tasksWithResolvedProjects))
    ELSE Let(LinearBatchCreateTasks(
                 Logged(c, EffortReasonWarnings(tasksWithResolvedProjects)),
                 tasksWithResolvedProjects),
             LAMBDA c1 :
                 IF ~Ok(c1) THEN c1
                 ELSE Logged(c1,
                          (IF \E i \in DOMAIN c1.out : needsDecomposition(c1.out[i].effort)
                           THEN <<"tasks require decomposition">> ELSE <<>>)
                          \o <<"batch created">>))

OrchBatchCreateTasks(c, tasks) ==
    IF tasks = <<>> THEN Returning(c, <<>>)
    ELSE Let([i \in DOMAIN tasks |-> ResolvedBatchItem(tasks[i])],
             LAMBDA resolved :
                 IF FirstError([i \in DOMAIN tasks |-> resolved[i].err]) # NoError
                 THEN Raise(c, FirstError([i \in DOMAIN tasks |-> resolved[i].err]))
                 ELSE BatchResolved(
                          Logged(c, Flatten([i \in DOMAIN tasks |-> resolved[i].logs])),
                          [i \in DOMAIN tasks |-> resolved[i].task]))

\* decomposeTask once the guard has let the parent through.
DecomposeGuarded(c, input) ==
    IF PolicyError(input.subtasks) # NoError THEN Raise(c, PolicyError(input.subtasks))
    ELSE Let(LinearDecomposeTask(c, input),
             LAMBDA c3 : IF ~Ok(c3) THEN c3 ELSE Logged(c3, <<"decomposed">>))

OrchDecomposeTask(c, policyMode, input) ==
    Let(LinearGetTask(c, input.taskID),
        LAMBDA c1 :
            IF c1.out = <<>> THEN Raise(c1, "TaskNotFound")
            ELSE Let(handleDecompositionGuard(policyMode, c1.out[1]),
                     LAMBDA guard :
                         IF guard.err # NoError THEN Raise(c1, guard.err)
                         ELSE DecomposeGuarded(
                                  Logged(c1, guard.logs
                                             \o EffortReasonWarnings(input.subtasks)),
                                  input)))

\* findRootTask: the walk up the parentTaskID links (0 is no parent).
RECURSIVE findRootTask(_, _)
findRootTask(c, current) ==
    IF current.parentTaskID = 0 THEN Returning(c, <<current>>)
    ELSE Let(LinearGetTask(c, current.parentTaskID),
             LAMBDA c1 :
                 IF c1.out = <<>> THEN Returning(c1, <<current>>)
                 ELSE findRootTask(c1, c1.out[1]))

TaskLoader(issues) ==
    [id \in DOMAIN issues |-> <<issueToTask(issues, id)>>]

checkTreeCompletion(c, task) ==
    Let(findRootTask(c, task),
        LAMBDA c1 :
            IF isEntireTreeDone(c1.out[1], TaskLoader(c1.issues))
            THEN [c1 EXCEPT !.logs = Append(@, Msg("tree completed", c1.out[1].taskID))]
            ELSE c1)

RECURSIVE CheckEach(_, _, _, _)
CheckEach(c, records, updatedTasks, index) ==
    IF index > Len(records) THEN c
    ELSE IF records[index].set.present /\ records[index].set.status = "done"
        THEN CheckEach(checkTreeCompletion(c, updatedTasks[index]), records,
                       updatedTasks, index + 1)
    ELSE CheckEach(c, records, updatedTasks, index + 1)

OrchUpdateTask(c, input) ==
    Let(applyTaskUpdates(c, input),
        LAMBDA c1 :
            IF ~Ok(c1) THEN c1
            ELSE Returning(CheckEach(c1, input, c1.out, 1), c1.out))

\* A filter of listTasks: project "", the empty lists and the empty search are
\* absent fields; has_unresolved_uncertainties is "true", "false" or "" (absent).
TaskFilter(project, status_in, labels_has_every, has_unresolved_uncertainties, ready, search) ==
    [project |-> project, status_in |-> status_in, labels_has_every |-> labels_has_every,
     has_unresolved_uncertainties |-> has_unresolved_uncertainties, ready |-> ready,
     search |-> search]

\* (task.uncertainties ?? []).some((uncertainty) => !uncertainty.resolution)
hasUnresolved(task) ==
    \E i \in DOMAIN task.uncertainties : task.uncertainties[i].resolution = NoText

\* String.prototype.includes, for a term made of whole tokens.
Includes(text, term) ==
    \E i \in 0..(Len(text) - Len(term)) : SubSeq(text, i + 1, i + Len(term)) = term

\* filterTasks without the two tests that filter.ready adds on uncertainties and
\* on the needs-decomposition label.
PassesFilterByStatusOnly(task, filter, readyStatuses) ==
    /\ IF filter.status_in # <<>> THEN Contains(filter.status_in, task.status)
       ELSE (filter.ready /\ readyStatuses # <<>>) => Contains(readyStatuses, task.status)
    /\ \A i \in DOMAIN filter.labels_has_every :
           Contains(task.labels, filter.labels_has_every[i])
    /\ filter.has_unresolved_uncertainties # ""
           => (hasUnresolved(task) <=> filter.has_unresolved_uncertainties = "true")

\* The tests of filterTasks that one task has to pass.
PassesFilter(task, filter, readyStatuses) ==
    /\ IF filter.status_in # <<>> THEN Contains(filter.status_in, task.status)
       ELSE (filter.ready /\ readyStatuses # <<>>) => Contains(readyStatuses, task.status)
    /\ \A i \in DOMAIN filter.labels_has_every :
           Contains(task.labels, filter.labels_has_every[i])
    /\ filter.has_unresolved_uncertainties # ""
           => (hasUnresolved(task) <=> filter.has_unresolved_uncertainties = "true")
    /\ filter.ready
           => ~hasUnresolved(task) /\ ~Contains(task.labels, NeedsDecompositionLabel)
    /\ filter.search # NoText
           => \/ Includes(ToLowerCase(task.title), ToLowerCase(filter.search))
              \/ Includes(ToLowerCase(task.description), ToLowerCase(filter.search))

filterTasks(tasks, filter, readyStatuses) ==
    SelectSeq(tasks, LAMBDA task : PassesFilter(task, filter, readyStatuses))

\* The first `first` elements of a list.
FirstOf(s, first) == SubSeq(s, 1, IF first < Len(s) THEN first ELSE Len(s))

\* client.issues({first, filter}): the issues of the team, of one project if one
\* is given, in the order of their ids.
IssuesPage(issues, project, first) ==
    FirstOf(SelectSeq([id \in DOMAIN issues |-> id],
                      LAMBDA id : project = NoProject \/ issues[id].project = project),
            first)

LinearListTasks(c, project, limit) ==
    IF limit < 1 \/ limit > 100 THEN Raise(Called(c, "listTasks", 0), "InvalidLimit")
    ELSE IF project # NoProject /\ ~HasProject(ConfiguredProjects, project)
        THEN Raise(Called(c, "listTasks", 0), "UnknownProject")
    ELSE Let(IssuesPage(c.issues, project, limit),
             LAMBDA nodes :
                 Returning(Called(c, "listTasks", 0),
                           [i \in DOMAIN nodes |-> issueToTask(c.issues, nodes[i])]))

\* listTasks after the project of the filter was resolved.
ListResolved(c, projectKey, filter, limit) ==
    Let(LinearListTasks(c, projectKey, limit),
        LAMBDA c1 :
            IF ~Ok(c1) THEN c1
            ELSE Returning(c1, filterTasks(c1.out, filter,
                                           IF filter.ready THEN <<"todo", "backlog">>
                                           ELSE <<>>)))

OrchListTasks(c, filter, limit) ==
    IF filter.project = NoProject THEN ListResolved(c, NoProject, filter, limit)
    ELSE Let(ProjectResolverResolve(ConfiguredProjects, ConfiguredDefault, filter.project),
             LAMBDA resolved :
                 IF resolved.err # NoError THEN Raise(c, resolved.err)
                 ELSE ListResolved(Logged(c, resolved.logs), resolved.key, filter, limit))

\* The result of queryTasks.
QueryResult(matched, updated, tasks) ==
    [matched |-> matched, updated |-> updated, tasks |-> tasks]

\* queryTasks once the tasks are listed: the operation goes to each selected task.
QueryListed(c, tasks, selected, operation) ==
    IF selected = <<>> THEN Returning(c, QueryResult(Len(tasks), 0, <<>>))
    ELSE Let(OrchUpdateTask(c, [i \in DOMAIN selected |->
                                   [taskID |-> selected[i].taskID, set |-> operation.set,
                                    add |-> operation.add, remove |-> operation.remove,
                                    resolve |-> operation.resolve]]),
             LAMBDA c1 :
                 IF ~Ok(c1) THEN c1
                 ELSE Returning(c1, QueryResult(Len(tasks), Len(c1.out), c1.out)))

\* queryTasks listing all the tasks of the workspace, whatever the filter.
OrchQueryTasksUnfiltered(c, input) ==
    IF /\ ~input.operation.set.present
       /\ ~input.operation.add.present
       /\ ~input.operation.remove.hasLabels
       /\ input.operation.resolve = <<>>
    THEN Raise(c, "EmptyOperation")
    ELSE Let(LinearListTasks(c, NoProject, input.limit),
             LAMBDA c1 :
                 IF ~Ok(c1) THEN c1
                 ELSE QueryListed(c1, c1.out, FirstOf(c1.out, input.limit), input.operation))

\* queryTasks listing the tasks before it looks at the operation.
OrchQueryTasksListingFirst(c, input) ==
    Let(OrchListTasks(c, input.filter, input.limit),
        LAMBDA c1 :
            IF ~Ok(c1) THEN c1
            ELSE IF /\ ~input.operation.set.present
                    /\ ~input.operation.add.present
                    /\ ~input.operation.remove.hasLabels
                    /\ input.operation.resolve = <<>>
                THEN Raise(c1, "EmptyOperation")
            ELSE QueryListed(c1, c1.out, FirstOf(c1.out, input.limit), input.operation))

OrchQueryTasks(c, input) ==
    IF /\ ~input.operation.set.present
       /\ ~input.operation.add.present
       /\ ~input.operation.remove.hasLabels
       /\ input.operation.resolve = <<>>
    THEN Raise(c, "EmptyOperation")
    ELSE Let(OrchListTasks(c, input.filter, input.limit),
             LAMBDA c1 :
                 IF ~Ok(c1) THEN c1
                 ELSE QueryListed(c1, c1.out, FirstOf(c1.out, input.limit), input.operation))

\* limit = 20 of LinearService.listTasks and limit = 10 of getReadyTasks, for a
\* call that gives no limit (0).
DefaultListLimit == 20
DefaultReadyLimit == 10

OrchGetReadyTasks(c, limit) ==
    OrchListTasks(c, TaskFilter(NoProject, <<"todo", "backlog">>, <<>>, "", TRUE, NoText),
                  IF limit = 0 THEN DefaultReadyLimit ELSE limit)

(***************************************************************************)
(* Requests                                                                *)
(***************************************************************************)
MaxTasks == 2

Risk == <<"Risk">>
RiskVariant == <<"risk", SP>>
Blank == <<SP>>
Auth == <<"Auth">>

\* An uncertainty as a caller gives it: a title and an optional description.
Draft(title, description) == Uncertainty(title, description, NoText, NoText, NoText)

CreateInput(project, effort, uncertainties, labels, dependsOnBatchIndex) ==
    [title |-> <<"note">>, description |-> <<"body">>, goal |-> <<"goal">>,
     effort |-> effort, effortReason |-> IF effort > 5 THEN <<"why">> ELSE NoText,
     complexityBias |-> NoText, project |-> project, uncertainties |-> uncertainties,
     labels |-> labels, dependsOnBatchIndex |-> dependsOnBatchIndex]

Request(op, input) == [op |-> op, input |-> input]
NoRequest == Request("none", <<>>)

UncertaintyLists ==
    { <<>>, <<Draft(Risk, NoText)>>, <<Draft(Blank, NoText)>>,
      <<Draft(Risk, <<"why">>), Draft(RiskVariant, NoText)>> }

CreateTaskRequests ==
    { Request("createTask", CreateInput(p, e, u, l, <<>>)) :
        p \in {NoProject, "ghost"}, e \in {2, 4, 5}, u \in UncertaintyLists, l \in {<<>>} }

\* One item of each kind for the batches and the decompositions: a small valid
\* item, a large valid one, an effort outside the scale, a large item without
\* uncertainties, and a large item whose only uncertainty has a blank title.
ItemKinds ==
    { [effort |-> 2, uncertainties |-> <<>>],
      [effort |-> 5, uncertainties |-> <<Draft(Risk, NoText)>>],
      [effort |-> 4, uncertainties |-> <<Draft(Risk, NoText)>>],
      [effort |-> 5, uncertainties |-> <<>>],
      [effort |-> 5, uncertainties |-> <<Draft(Blank, NoText)>>] }

BatchItems ==
    { CreateInput(NoProject, k.effort, k.uncertainties, <<>>, d) :
        k \in ItemKinds, d \in {<<>>, <<0>>, <<1>>, <<2>>} }

PlainItem == CreateInput(NoProject, 2, <<>>, <<>>, <<>>)

IsPlain(item) == item.effort = 2 /\ item.dependsOnBatchIndex = <<>>

\* Batches of one or two items of which at most one is not plain, a batch with an
\* unconfigured project, the empty batch, and a batch of one item too many.
BatchRequests ==
    { Request("batchCreateTasks", <<a>>) : a \in BatchItems }
    \cup { Request("batchCreateTasks", <<p[1], p[2]>>) :
             p \in {q \in BatchItems \X BatchItems : IsPlain(q[1]) \/ IsPlain(q[2])} }
    \cup { Request("batchCreateTasks", <<PlainItem, [PlainItem EXCEPT !.project = "ghost"]>>),
           Request("batchCreateTasks", <<>>),
           Request("batchCreateTasks", [i \in 1..(MaxBatchSize + 1) |-> PlainItem]) }

Subtasks == { CreateInput(NoProject, k.effort, k.uncertainties, <<>>, <<>>) : k \in ItemKinds }

DecomposeInput(taskID, subtasks) == [taskID |-> taskID, subtasks |-> subtasks]

DecomposeRequests(ids) ==
    { Request("decomposeTask", DecomposeInput(t, <<a>>)) : t \in ids, a \in Subtasks }
    \cup { Request("decomposeTask", DecomposeInput(t, <<a, b>>)) :
             t \in ids, a \in Subtasks, b \in {x \in Subtasks : x.effort = 2} }
    \cup { Request("decomposeTask", DecomposeInput(t, <<a, b>>)) :
             t \in ids, a \in {x \in Subtasks : x.effort = 2}, b \in Subtasks }

\* The blocks of an update record; status "", effort 0 and the empty texts are
\* absent fields.
SetBlock(status, hasDescription, description, effort, effortReason) ==
    [present |-> TRUE, status |-> status, hasDescription |-> hasDescription,
     description |-> description, effort |-> effort, effortReason |-> effortReason,
     complexityBias |-> NoText]
NoSet ==
    [present |-> FALSE, status |-> "", hasDescription |-> FALSE, description |-> NoText,
     effort |-> 0, effortReason |-> NoText, complexityBias |-> NoText]
AddBlock(lessonsLearned, uncertainties, labels) ==
    [present |-> TRUE, lessonsLearned |-> lessonsLearned, uncertainties |-> uncertainties,
     labels |-> labels]
NoAdd == [present |-> FALSE, lessonsLearned |-> <<>>, uncertainties |-> <<>>, labels |-> <<>>]
RemoveBlock(labels) == [hasLabels |-> TRUE, labels |-> labels]
NoRemove == [hasLabels |-> FALSE, labels |-> <<>>]
Resolution(title, resolution) == [title |-> title, resolution |-> resolution]

UpdateRecord(taskID, set, add, remove, resolve) ==
    [taskID |-> taskID, set |-> set, add |-> add, remove |-> remove, resolve |-> resolve]

NoteLesson == Lesson(<<"note">>, <<"pattern">>, <<>>)
TipLesson == Lesson(<<"tip">>, NoText, <<>>)
PaddedLesson == Lesson(<<SP, "tip">>, <<"gotcha">>, <<"auth">>)

Done == SetBlock("done", FALSE, NoText, 0, NoText)
Larger == SetBlock("", FALSE, NoText, 8, <<"why">>)

\* Records with one block, and records that combine blocks.
UpdateRecords(t) ==
    { UpdateRecord(t, Done, NoAdd, NoRemove, <<>>),
      UpdateRecord(t, SetBlock("in-review", FALSE, NoText, 0, NoText), NoAdd, NoRemove, <<>>),
      UpdateRecord(t, SetBlock("", TRUE, <<"tip">>, 0, NoText), NoAdd, NoRemove, <<>>),
      UpdateRecord(t, Larger, NoAdd, NoRemove, <<>>),
      UpdateRecord(t, SetBlock("done", FALSE, NoText, 4, NoText), NoAdd, NoRemove, <<>>),
      UpdateRecord(t, NoSet, AddBlock(<<NoteLesson>>, <<>>, <<>>), NoRemove, <<>>),
      UpdateRecord(t, NoSet, AddBlock(<<PaddedLesson, TipLesson>>, <<>>, <<>>), NoRemove, <<>>),
      UpdateRecord(t, NoSet,
                   AddBlock(<<>>, <<Draft(RiskVariant, <<"why">>), Draft(Auth, NoText)>>, <<>>),
                   NoRemove, <<>>),
      UpdateRecord(t, NoSet, AddBlock(<<>>, <<>>, << <<"ui">> >>), NoRemove, <<>>),
      UpdateRecord(t, NoSet, NoAdd, RemoveBlock(<< <<"bug">> >>), <<>>),
      UpdateRecord(t, NoSet, NoAdd, NoRemove, <<Resolution(Risk, <<"fix">>)>>),
      UpdateRecord(t, NoSet, NoAdd, NoRemove, <<Resolution(RiskVariant, <<"fix">>)>>),
      UpdateRecord(t, NoSet, NoAdd, NoRemove, <<Resolution(Risk, <<SP, "fix">>)>>),
      UpdateRecord(t, Larger, AddBlock(<<>>, <<>>, << <<"ui">> >>), NoRemove, <<>>),
      UpdateRecord(t, Done,
                   AddBlock(<<NoteLesson>>, <<Draft(Auth, NoText)>>, << <<"ui">> >>),
                   RemoveBlock(<< <<"bug">> >>),
                   <<Resolution(Auth, <<"fix">>), Resolution(<<"goal">>, <<"fix">>)>>) }

\* The records that make up the batches of two: one that adds a lesson, one that
\* resolves, and one that fails at its effort patch after it set the status.
PairRecords(t) ==
    { UpdateRecord(t, NoSet, AddBlock(<<NoteLesson>>, <<>>, <<>>), NoRemove, <<>>),
      UpdateRecord(t, NoSet, NoAdd, NoRemove, <<Resolution(Risk, <<"fix">>)>>),
      UpdateRecord(t, SetBlock("done", FALSE, NoText, 4, NoText), NoAdd, NoRemove, <<>>) }

UpdateRequests(ids) ==
    { Request("updateTask", <<r>>) : r \in UNION {UpdateRecords(t) : t \in ids} }
    \cup { Request("updateTask", <<a, b>>) :
             a \in UNION {PairRecords(t) : t \in ids},
             b \in UNION {PairRecords(t) \ {UpdateRecord(t, NoSet, NoAdd, NoRemove,
                                                <<Resolution(Risk, <<"fix">>)>>)} :
                           t \in ids} }

\* Requests that resolve one uncertainty of one task.
ResolveRequests(ids) ==
    { Request("updateTask",
              <<UpdateRecord(t, NoSet, NoAdd, NoRemove, <<Resolution(Risk, <<"fix">>)>>)>>) :
        t \in ids }

\* The tasks that the updates work on.
SeedRequests ==
    { Request("createTask", CreateInput(NoProject, 2, <<>>, << <<"bug">> >>, <<>>)),
      Request("createTask", CreateInput(NoProject, 5, <<Draft(Risk, NoText)>>, <<>>, <<>>)),
      Request("createTask",
              CreateInput(NoProject, 5, <<Draft(Risk, <<"why">>), Draft(Risk, NoText)>>,
                          <<>>, <<>>)) }

MaxRequests == 3

VARIABLES
    issues,     \* the issues of the Linear workspace, by id
    mode,       \* the orchestrator's uncertaintyMode
    req,        \* the request being handled, or NoRequest
    last,       \* the last request handled and its outcome
    handled,    \* the number of requests received
    discovery,  \* the ProjectDiscovery instance, its cache file and its getProject calls
    inflight    \* the metadata writes that are between their await points

vars == <<issues, mode, req, last, handled, discovery, inflight>>

\* A ProjectDiscovery instance that nothing has called, and no write under way.
NoDiscovery ==
    [cacheLoaded |-> FALSE, cache |-> {}, file |-> {}, reads |-> 0, calls |-> <<>>]
NoWrites == <<>>

NoLast ==
    [op |-> "none", input |-> <<>>, pre |-> <<>>, err |-> NoError, out |-> <<>>,
     calls |-> <<>>, logs |-> <<>>]

\* The workspace is empty and the orchestrator has its configured mode.
InitWith(modes) ==
    /\ issues = <<>>
    /\ mode \in modes
    /\ req = NoRequest
    /\ last = NoLast
    /\ handled = 0
    /\ discovery = NoDiscovery
    /\ inflight = NoWrites

Init == InitWith({"off", "warn", "block"})

\* The ids a request may name: those of the issues, and one that names none.
Ids == 1..(Len(issues) + 1)

\* A request arrives.
Receive(requests) ==
    /\ req.op = "none"
    /\ handled < MaxRequests
    /\ \E r \in requests : req' = r
    /\ last' = NoLast
    /\ handled' = handled + 1
    /\ UNCHANGED <<issues, mode, discovery, inflight>>

Start == Ctx(issues, <<>>, <<>>, NoError, <<>>)

\* The handler has run to its end, c: the workspace is as it left it and the
\* caller has its answer.
FinishWithin(c, max) ==
    /\ Len(c.issues) <= max
    /\ issues' = c.issues
    /\ last' = [op |-> req.op, input |-> req.input, pre |-> issues, err |-> c.err,
                out |-> IF Ok(c) THEN c.out ELSE <<>>, calls |-> c.calls, logs |-> c.logs]
    /\ req' = NoRequest
    /\ UNCHANGED <<mode, handled, discovery, inflight>>

Finish(c) == FinishWithin(c, MaxTasks)

CreateTask ==
    /\ req.op = "createTask"
    /\ Finish(OrchCreateTask(Start, req.input))

BatchCreateTasks ==
    /\ req.op = "batchCreateTasks"
    /\ Finish(OrchBatchCreateTasks(Start, req.input))

DecomposeTask ==
    /\ req.op = "decomposeTask"
    /\ Finish(OrchDecomposeTask(Start, mode, req.input))

UpdateTask ==
    /\ req.op = "updateTask"
    /\ Finish(OrchUpdateTask(Start, req.input))

\* Tasks are created, decomposed and have their uncertainties resolved.
Next ==
    \/ Receive(CreateTaskRequests)
    \/ Receive(BatchRequests)
    \/ Receive(DecomposeRequests(Ids))
    \/ Receive(ResolveRequests(Ids))
    \/ CreateTask
    \/ BatchCreateTasks
    \/ DecomposeTask
    \/ UpdateTask

Spec == Init /\ [][Next]_vars

\* Tasks are created and updated.
NextUpdate ==
    \/ Receive(SeedRequests)
    \/ Receive(UpdateRequests(Ids))
    \/ CreateTask
    \/ UpdateTask

SpecUpdate == InitWith({"warn"}) /\ [][NextUpdate]_vars

\* The most issues of a workspace in which tasks are decomposed.
MaxTreeTasks == 3

\* A small subtask, and one that is to be decomposed itself.
Leaf == CreateInput(NoProject, 2, <<>>, <<>>, <<>>)
Branch == CreateInput(NoProject, 5, <<Draft(Risk, NoText)>>, <<>>, <<>>)

\* The tasks that are decomposed: one that needs it and one that does not.
TreeSeedRequests ==
    { Request("createTask", Branch), Request("createTask", Leaf) }

TreeDecomposeRequests(ids) ==
    { Request("decomposeTask", DecomposeInput(t, s)) :
        t \in ids, s \in {<<Leaf>>, <<Branch>>, <<Leaf, Leaf>>} }

InReview == SetBlock("in-review", FALSE, NoText, 0, NoText)

\* One task or two tasks are given a status.
TreeUpdateRequests(ids) ==
    { Request("updateTask", <<UpdateRecord(t, s, NoAdd, NoRemove, <<>>)>>) :
        t \in ids, s \in {Done, InReview} }
    \cup { Request("updateTask",
                   <<UpdateRecord(t, Done, NoAdd, NoRemove, <<>>),
                     UpdateRecord(u, Done, NoAdd, NoRemove, <<>>)>>) :
             t \in ids, u \in ids }

\* A batch of two tasks, the second of which depends on the first.
TreeBatchRequests ==
    { Request("batchCreateTasks",
              <<Leaf, [Branch EXCEPT !.dependsOnBatchIndex = <<0>>]>>) }

TreeBatchCreateTasks ==
    /\ req.op = "batchCreateTasks"
    /\ FinishWithin(OrchBatchCreateTasks(Start, req.input), MaxTreeTasks)

TreeDecomposeTask ==
    /\ req.op = "decomposeTask"
    /\ FinishWithin(OrchDecomposeTask(Start, mode, req.input), MaxTreeTasks)

TreeUpdateTask ==
    /\ req.op = "updateTask"
    /\ FinishWithin(OrchUpdateTask(Start, req.input), MaxTreeTasks)

\* Tasks are created, alone and in a batch, decomposed and given a status.
NextTree ==
    \/ Receive(TreeSeedRequests)
    \/ Receive(TreeDecomposeRequests(Ids))
    \/ Receive(TreeUpdateRequests(Ids))
    \/ Receive(TreeBatchRequests)
    \/ CreateTask
    \/ TreeBatchCreateTasks
    \/ TreeDecomposeTask
    \/ TreeUpdateTask

SpecTree == InitWith({"warn"}) /\ [][NextTree]_vars

(***************************************************************************)
(* isEntireTreeDone on its own                                             *)
(***************************************************************************)
\* A tree of tasks: issue i has the parent parent[i] (0: none), a smaller id, and
\* the status status[i].
Forests ==
    UNION { { [parent |-> p, status |-> s] :
                p \in {q \in [1..n -> 0..n] : q[1] = 0 /\ \A i \in 2..n : q[i] \in 1..(i - 1)},
                s \in [1..n -> {"done", "todo", "in-progress"}] } :
            n \in 1..MaxTreeTasks }

ChildrenOf(f, t) == SelectSeq([i \in DOMAIN f.parent |-> i], LAMBDA i : f.parent[i] = t)

\* Task t of the tree f, with its subtasks filled in down to `depth` levels.
RECURSIVE TaskView(_, _, _)
TaskView(f, t, depth) ==
    [taskID |-> t, status |-> f.status[t],
     subtasks |-> IF depth = 0 THEN <<>>
                  ELSE [i \in DOMAIN ChildrenOf(f, t) |->
                            TaskView(f, ChildrenOf(f, t)[i], depth - 1)]]

\* A loader that returns each task with its direct subtasks.
DirectLoader(f) == [t \in DOMAIN f.parent |-> <<TaskView(f, t, 1)>>]

TreeDoneRequests ==
    UNION { { Request("isEntireTreeDone", [forest |-> f, task |-> TaskView(f, t, d)]) :
                t \in DOMAIN f.parent, d \in 1..2 } :
            f \in Forests }

\* The question is one about a task of the tree.
InitTreeDone ==
    /\ issues = <<>>
    /\ mode = "warn"
    /\ req \in TreeDoneRequests
    /\ last = NoLast
    /\ handled = 0
    /\ discovery = NoDiscovery
    /\ inflight = NoWrites

\* isEntireTreeDone answers.
AnswerTreeDone ==
    /\ req.op = "isEntireTreeDone"
    /\ last' = [NoLast EXCEPT
                   !.op = req.op, !.input = req.input,
                   !.out = <<isEntireTreeDone(req.input.task, DirectLoader(req.input.forest))>>]
    /\ req' = NoRequest
    /\ UNCHANGED <<issues, mode, handled, discovery, inflight>>

NextTreeDone == AnswerTreeDone

SpecTreeDone == InitTreeDone /\ [][NextTreeDone]_vars

(***************************************************************************)
(* UncertaintyPolicy on its own                                            *)
(***************************************************************************)
\* The longest list of uncertainties the policy is asked about.
MaxUncertainties == 2

\* The lists of at most n elements of the set S.
ListsUpTo(S, n) == UNION {[1..k -> S] : k \in 0..n}

\* Uncertainties with and without a resolution and a resolvedAt.
PolicyUncertainties ==
    { Uncertainty(Risk, NoText, resolution, NoText, resolvedAt) :
        resolution \in {NoText, <<"fix">>}, resolvedAt \in {NoText, <<Now>>} }

GuardRequests ==
    { Request("handleDecompositionGuard", [uncertainties |-> u, taskID |-> 1]) :
        u \in ListsUpTo(PolicyUncertainties, MaxUncertainties) }

ValidateRequests ==
    { Request("validateForCreation", [effort |-> e, uncertainties |-> u]) :
        e \in 1..8 \cup {13, 21},
        u \in ListsUpTo({Draft(Risk, NoText), Draft(Blank, NoText)}, MaxUncertainties) }

\* The policy of an orchestrator of any mode is asked one question.
InitPolicy ==
    /\ issues = <<>>
    /\ mode \in {"off", "warn", "block"}
    /\ \/ req \in GuardRequests
       \/ req \in ValidateRequests
    /\ last = NoLast
    /\ handled = 0
    /\ discovery = NoDiscovery
    /\ inflight = NoWrites

Answer(err, logs) ==
    /\ last' = [NoLast EXCEPT !.op = req.op, !.input = req.input, !.err = err,
                              !.logs = Msgs(logs)]
    /\ req' = NoRequest
    /\ UNCHANGED <<issues, mode, handled, discovery, inflight>>

AnswerGuard ==
    /\ req.op = "handleDecompositionGuard"
    /\ Let(handleDecompositionGuard(mode, req.input),
           LAMBDA guard : Answer(guard.err, guard.logs))

AnswerValidate ==
    /\ req.op = "validateForCreation"
    /\ Answer(validateForCreation(req.input.effort, req.input.uncertainties), <<>>)

NextPolicy ==
    \/ AnswerGuard
    \/ AnswerValidate

SpecPolicy == InitPolicy /\ [][NextPolicy]_vars

(***************************************************************************)
(* Batches whose items depend on one another                               *)
(***************************************************************************)
\* The lists of at most two positions among 0..n.
DependencyLists(n) ==
    {<<>>} \cup {<<a>> : a \in 0..n} \cup {<<a, b>> : a \in 0..n, b \in 0..n}

\* Batches of valid items, each with a list of positions it depends on; the
\* position after the last one is out of range.
IndexBatchRequests ==
    UNION { { Request("batchCreateTasks",
                      [i \in 1..n |-> [PlainItem EXCEPT !.dependsOnBatchIndex = d[i]]]) :
                d \in [1..n -> DependencyLists(n)] } :
            n \in 1..MaxTasks }

\* One batch is sent to an orchestrator whose workspace is empty.
InitBatchIndex ==
    /\ issues = <<>>
    /\ mode = "warn"
    /\ req \in IndexBatchRequests
    /\ last = NoLast
    /\ handled = 0
    /\ discovery = NoDiscovery
    /\ inflight = NoWrites

NextBatchIndex == BatchCreateTasks

SpecBatchIndex == InitBatchIndex /\ [][NextBatchIndex]_vars

(***************************************************************************)
(* Queries that update the tasks they list                                 *)
(***************************************************************************)
QueryInput(filter, limit, operation) ==
    [filter |-> filter, limit |-> limit, operation |-> operation]

BulkOperation(set, add, remove, resolve) ==
    [set |-> set, add |-> add, remove |-> remove, resolve |-> resolve]

NoFilter == TaskFilter(NoProject, <<>>, <<>>, "", FALSE, NoText)

\* Filters on each field, of a project that is configured and of one that is not.
QueryFilters ==
    { NoFilter,
      [NoFilter EXCEPT !.status_in = <<"backlog">>],
      [NoFilter EXCEPT !.status_in = <<"done">>],
      [NoFilter EXCEPT !.labels_has_every = << <<"bug">> >>],
      [NoFilter EXCEPT !.has_unresolved_uncertainties = "true"],
      [NoFilter EXCEPT !.has_unresolved_uncertainties = "false"],
      [NoFilter EXCEPT !.ready = TRUE],
      [NoFilter EXCEPT !.search = <<"goal">>],
      [NoFilter EXCEPT !.project = "app"],
      [NoFilter EXCEPT !.project = "ghost"] }

\* The operation without a block, and operations with one block.
BulkOperations ==
    { BulkOperation(NoSet, NoAdd, NoRemove, <<>>),
      BulkOperation(SetBlock("done", FALSE, NoText, 0, NoText), NoAdd, NoRemove, <<>>),
      BulkOperation(NoSet, AddBlock(<<Lesson(<<"tip">>, NoText, <<>>)>>, <<>>, <<>>),
                    NoRemove, <<>>),
      BulkOperation(NoSet, AddBlock(<<>>, <<>>, << <<"ui">> >>), NoRemove, <<>>),
      BulkOperation(NoSet, NoAdd, RemoveBlock(<< <<"bug">> >>), <<>>),
      BulkOperation(NoSet, NoAdd, NoRemove, <<Resolution(Risk, <<"fix">>)>>) }

QueryRequests ==
    { Request("queryTasks", QueryInput(f, l, o)) :
        f \in QueryFilters, l \in 1..MaxTasks, o \in BulkOperations }

\* The tasks that the queries list: one with a label, one of a project and one
\* with an uncertainty.
QuerySeedRequests ==
    { Request("createTask", CreateInput(NoProject, 2, <<>>, << <<"bug">> >>, <<>>)),
      Request("createTask", CreateInput("app", 2, <<>>, <<>>, <<>>)),
      Request("createTask", CreateInput(NoProject, 5, <<Draft(Risk, NoText)>>, <<>>, <<>>)) }

QueryTasks ==
    /\ req.op = "queryTasks"
    /\ Finish(OrchQueryTasks(Start, req.input))

\* Tasks are created and queries update them.
NextQuery ==
    \/ Receive(QuerySeedRequests)
    \/ Receive(QueryRequests)
    \/ CreateTask
    \/ QueryTasks

SpecQuery == InitWith({"warn"}) /\ [][NextQuery]_vars

(***************************************************************************)
(* Listings of tasks and of ready tasks                                    *)
(***************************************************************************)
ListInput(filter, limit) == [filter |-> filter, limit |-> limit]

ReadyFilter == [NoFilter EXCEPT !.ready = TRUE]

\* Filters that ask for ready tasks, alone and with a status_in, and filters
\* that do not.
ListFilters ==
    { NoFilter,
      ReadyFilter,
      [ReadyFilter EXCEPT !.status_in = <<"done">>],
      [ReadyFilter EXCEPT !.status_in = <<"todo", "done">>],
      [NoFilter EXCEPT !.status_in = <<"backlog">>] }

\* Limit 0 is a call without a limit.
ListRequests ==
    { Request("listTasks", ListInput(f, l)) : f \in ListFilters, l \in 0..MaxTasks }

ReadyRequests == { Request("getReadyTasks", [limit |-> l]) : l \in 0..MaxTasks }

\* Tasks with and without an unresolved uncertainty.
ListSeedRequests ==
    { Request("createTask", CreateInput(NoProject, 2, <<>>, << <<"bug">> >>, <<>>)),
      Request("createTask", CreateInput(NoProject, 2, <<Draft(Risk, NoText)>>, <<>>, <<>>)),
      Request("createTask", CreateInput(NoProject, 5, <<Draft(Risk, NoText)>>, <<>>, <<>>)) }

\* A task is given a status or a larger effort, or has its uncertainty resolved.
ListUpdateRequests(ids) ==
    { Request("updateTask", <<UpdateRecord(t, s, NoAdd, NoRemove, r)>>) :
        t \in ids,
        s \in {NoSet, Done, Larger, SetBlock("todo", FALSE, NoText, 0, NoText)},
        r \in {<<>>, <<Resolution(Risk, <<"fix">>)>>} }

ListTasks ==
    /\ req.op = "listTasks"
    /\ Finish(OrchListTasks(Start, req.input.filter,
                            IF req.input.limit = 0 THEN DefaultListLimit
                            ELSE req.input.limit))

GetReadyTasks ==
    /\ req.op = "getReadyTasks"
    /\ Finish(OrchGetReadyTasks(Start, req.input.limit))

\* Tasks are created, updated and listed.
NextList ==
    \/ Receive(ListSeedRequests)
    \/ Receive(ListUpdateRequests(Ids))
    \/ Receive(ListRequests)
    \/ Receive(ReadyRequests)
    \/ CreateTask
    \/ UpdateTask
    \/ ListTasks
    \/ GetReadyTasks

SpecList == InitWith({"warn"}) /\ [][NextList]_vars

(***************************************************************************)
(* Resolutions of a project                                                *)
(***************************************************************************)
ProjectKeys == {"app", "web"}

\* The keys that a caller or DEFAULT_PROJECT may name: configured or not, and a
\* name that plain objects inherit.
ProjectNames == {NoProject, "app", "web", "ghost", "constructor"}

\* A resolver built on a project map and a default, asked for a project.
ProjectResolveRequests ==
    { Request("resolve", [projects |-> ps, defaultProject |-> d, requested |-> r]) :
        ps \in SUBSET ProjectKeys, d \in ProjectNames, r \in ProjectNames }

InitResolve ==
    /\ issues = <<>>
    /\ mode = "warn"
    /\ req \in ProjectResolveRequests
    /\ last = NoLast
    /\ handled = 0
    /\ discovery = NoDiscovery
    /\ inflight = NoWrites

AnswerResolve ==
    /\ req.op = "resolve"
    /\ Let(ProjectResolverResolve(req.input.projects, req.input.defaultProject,
                                  req.input.requested),
           LAMBDA resolved :
               last' = [NoLast EXCEPT !.op = req.op, !.input = req.input,
                                      !.err = resolved.err, !.out = <<resolved.key>>,
                                      !.logs = resolved.logs])
    /\ req' = NoRequest
    /\ UNCHANGED <<issues, mode, handled, discovery, inflight>>

NextResolve == AnswerResolve

SpecResolve == InitResolve /\ [][NextResolve]_vars

(***************************************************************************)
(* Metadata values that are encoded and decoded                            *)
(***************************************************************************)
MaxLessons == 2

\* Uncertainties that are open, resolved with every detail, and open with a
\* padded title and some details.
CodecUncertainties ==
    { Uncertainty(Risk, NoText, NoText, NoText, NoText),
      Uncertainty(Auth, <<"why">>, <<"fix">>, <<"auth">>, <<Now>>),
      Uncertainty(<<"Risk", SP>>, <<"why", SP, "fix">>, NoText, <<"auth">>, NoText) }

\* Lessons with and without a category, tags and padding.
CodecLessons ==
    { Lesson(<<"tip">>, NoText, <<>>),
      Lesson(<<"note">>, <<"pattern">>, <<"auth">>),
      Lesson(<<SP, "tip">>, <<"gotcha">>, <<>>) }

CodecMetadata ==
    [goal : {NoText, <<"goal">>, <<"goal", SP>>},
     effort : {2, 13},
     effortReason : {NoText, <<"why">>},
     complexityBias : {NoText, <<"high">>},
     uncertainties : ListsUpTo(CodecUncertainties, MaxUncertainties),
     lessonsLearned : ListsUpTo(CodecLessons, MaxLessons)]

\* Plain texts: none, a line, and a text that holds lines of the metadata grammar.
CodecPlainTexts ==
    { NoText, <<"body">>,
      <<GoalKey, SP, "note", NL, LessonsKey, NL, Dash, SP, "tip">> }

RoundTripRequests ==
    { Request("roundTrip", [plainDescription |-> p, metadata |-> m]) :
        p \in CodecPlainTexts, m \in CodecMetadata }

InitCodec ==
    /\ issues = <<>>
    /\ mode = "warn"
    /\ req \in RoundTripRequests
    /\ last = NoLast
    /\ handled = 0
    /\ discovery = NoDiscovery
    /\ inflight = NoWrites

\* The metadata is encoded before the plain text and the text is decoded.
AnswerRoundTrip ==
    /\ req.op = "roundTrip"
    /\ last' = [NoLast EXCEPT
                   !.op = req.op, !.input = req.input,
                   !.out = <<parseMetadata(
                                 buildDescriptionWithMetadata(req.input.plainDescription,
                                                              req.input.metadata))>>]
    /\ req' = NoRequest
    /\ UNCHANGED <<issues, mode, handled, discovery, inflight>>

NextCodec == AnswerRoundTrip

SpecCodec == InitCodec /\ [][NextCodec]_vars

(***************************************************************************)
(* Project discovery: getProject calls that interleave at their awaits     *)
(***************************************************************************)
MaxCalls == 2

\* The projects of the Linear workspace and the names that callers ask for.
LinearProjects == {"app", "web"}
AskedProjects == {"app", "web", "ghost"}

\* The cache file: missing, unreadable as JSON, or holding cached projects.
CacheFile(state, projects) == [state |-> state, projects |-> projects]
CacheFiles ==
    {CacheFile("missing", {}), CacheFile("malformed", {})}
        \cup {CacheFile("valid", ps) : ps \in SUBSET LinearProjects}

\* A getProject call: the project asked for, the await the call is suspended at
\* ("returned" and "failed" are its ends) and the data that saveCache writes.
Call(projectName, at, data) == [projectName |-> projectName, at |-> at, data |-> data]

InitDiscovery ==
    /\ issues = <<>>
    /\ mode = "warn"
    /\ req = NoRequest
    /\ last = NoLast
    /\ handled = 0
    /\ discovery \in {[NoDiscovery EXCEPT !.file = f] : f \in CacheFiles}
    /\ inflight = NoWrites

\* getProject once the cache is loaded: the cached project is returned, or the
\* call awaits linearClient.projects().
AfterLoad(cache, projectName) ==
    IF projectName \in cache THEN Call(projectName, "returned", {})
    ELSE Call(projectName, "discoverFromLinear", {})

\* getProject is called: up to its first await.
GetProject ==
    /\ Len(discovery.calls) < MaxCalls
    /\ \E projectName \in AskedProjects :
           discovery' =
               IF ~discovery.cacheLoaded
               THEN [discovery EXCEPT
                        !.reads = @ + 1,
                        !.calls = Append(@, Call(projectName, "loadCache", {}))]
               ELSE [discovery EXCEPT
                        !.calls = Append(@, AfterLoad(discovery.cache, projectName))]
    /\ UNCHANGED <<issues, mode, req, last, handled, inflight>>

\* The cache that loadCache leaves when fs.readFile settles.
Loaded(cache, file) == IF file.state = "valid" THEN cache \cup file.projects ELSE cache

\* fs.readFile of a call settles: loadCache fills the cache, sets cacheLoaded, and
\* getProject goes on to its next await.
ReadFileSettles ==
    /\ \E i \in DOMAIN discovery.calls :
           /\ discovery.calls[i].at = "loadCache"
           /\ discovery' =
                  [discovery EXCEPT
                      !.cache = Loaded(@, discovery.file),
                      !.cacheLoaded = TRUE,
                      !.calls[i] = AfterLoad(Loaded(discovery.cache, discovery.file),
                                             discovery.calls[i].projectName)]
    /\ UNCHANGED <<issues, mode, req, last, handled, inflight>>

\* linearClient.projects() of a call settles: the project is cached and saveCache
\* takes the data it will write, or the project does not exist.
ProjectsSettles ==
    /\ \E i \in DOMAIN discovery.calls :
           /\ discovery.calls[i].at = "discoverFromLinear"
           /\ discovery' =
                  IF discovery.calls[i].projectName \in LinearProjects
                  THEN [discovery EXCEPT
                           !.cache = @ \cup {discovery.calls[i].projectName},
                           !.calls[i] =
                               Call(discovery.calls[i].projectName, "saveCache",
                                    discovery.cache \cup {discovery.calls[i].projectName})]
                  ELSE [discovery EXCEPT
                           !.calls[i] = Call(discovery.calls[i].projectName, "failed", {})]
    /\ UNCHANGED <<issues, mode, req, last, handled, inflight>>

\* fs.writeFile of a call settles, with the file written or with an error that is
\* only logged: getProject returns.
WriteFileSettles ==
    /\ \E i \in DOMAIN discovery.calls :
           /\ discovery.calls[i].at = "saveCache"
           /\ \E written \in BOOLEAN :
                  discovery' =
                      [discovery EXCEPT
                          !.file = IF written
                                   THEN CacheFile("valid", discovery.calls[i].data) ELSE @,
                          !.calls[i] = Call(discovery.calls[i].projectName, "returned", {})]
    /\ UNCHANGED <<issues, mode, req, last, handled, inflight>>

NextDiscovery ==
    \/ GetProject
    \/ ReadFileSettles
    \/ ProjectsSettles
    \/ WriteFileSettles

SpecDiscovery == InitDiscovery /\ [][NextDiscovery]_vars

(***************************************************************************)
(* Creations with few and with many uncertainties                          *)
(***************************************************************************)
MaxDrafts == 4

\* Uncertainty entries with a title, with another title and with a blank title.
AdvisoryDrafts == {Draft(Risk, NoText), Draft(Auth, NoText), Draft(Blank, NoText)}

\* Tasks of an effort below, at and above the decomposition threshold.
AdvisoryRequests ==
    { Request("createTask", CreateInput(NoProject, e, us, <<>>, <<>>)) :
        e \in {2, 3, 5, 8}, us \in ListsUpTo(AdvisoryDrafts, MaxDrafts) }

\* One task is created in an empty workspace.
InitAdvisory ==
    /\ issues = <<>>
    /\ mode \in {"off", "warn", "block"}
    /\ req \in AdvisoryRequests
    /\ last = NoLast
    /\ handled = 0
    /\ discovery = NoDiscovery
    /\ inflight = NoWrites

NextAdvisory == CreateTask

SpecAdvisory == InitAdvisory /\ [][NextAdvisory]_vars

(***************************************************************************)
(* Metadata writes on descriptions that were stored by other hands         *)
(***************************************************************************)
\* The metadata block of a description, from its separator to its end marker.
BlockOf(metadata) ==
    SubSeq(buildDescriptionWithMetadata(NoText, metadata), 1,
           Len(buildDescriptionWithMetadata(NoText, metadata)) - 2)

StoredMetadata ==
    { [DefaultMetadata EXCEPT !.goal = <<"goal">>],
      [DefaultMetadata EXCEPT !.uncertainties = <<Uncertainty(Risk, NoText, NoText, NoText, NoText)>>],
      [DefaultMetadata EXCEPT
          !.effort = 2,
          !.uncertainties = <<Uncertainty(Risk, <<"why">>, NoText, NoText, NoText)>>,
          !.lessonsLearned = <<Lesson(<<"note">>, <<"pattern">>, <<>>)>>] }

\* What follows the end marker: a blank line, a single newline or nothing.
AfterEnd == { <<NL, NL>>, <<NL>>, <<>> }

\* Descriptions with one metadata block, as the service writes them and as an
\* editor of the issue may leave them.
StoredDescriptions ==
    { BlockOf(m) \o a \o p : m \in StoredMetadata, a \in AfterEnd, p \in {NoText, <<"body">>} }

\* One record that writes metadata: a lesson, an uncertainty, a resolution, an
\* effort.
MetadataWriteRequests ==
    { Request("updateTask", <<UpdateRecord(1, s, a, NoRemove, r)>>) :
        s \in {NoSet, Larger},
        a \in {NoAdd, AddBlock(<<TipLesson>>, <<>>, <<>>),
               AddBlock(<<>>, <<Draft(Auth, NoText)>>, <<>>)},
        r \in {<<>>, <<Resolution(Risk, <<"fix">>)>>} }

\* One issue is stored and one record is sent.
InitStored ==
    /\ issues \in { <<[NewIssue(<<"note">>, d, 0, "app", 5) EXCEPT
                          !.labels = <<EffortLabel(5), NeedsDecompositionLabel>>]>> :
                      d \in StoredDescriptions }
    /\ mode = "warn"
    /\ req \in MetadataWriteRequests
    /\ last = NoLast
    /\ handled = 0
    /\ discovery = NoDiscovery
    /\ inflight = NoWrites

NextStored == UpdateTask

SpecStored == InitStored /\ [][NextStored]_vars

(***************************************************************************)
(* Two update requests that write the metadata of one task                 *)
(***************************************************************************)
Cache == <<"Cache">>
HintLesson == Lesson(<<"hint">>, NoText, <<>>)

\* What one request adds: one lesson, or one uncertainty.
WriterAdds ==
    { AddBlock(<<TipLesson>>, <<>>, <<>>), AddBlock(<<HintLesson>>, <<>>, <<>>),
      AddBlock(<<>>, <<Draft(Auth, NoText)>>, <<>>),
      AddBlock(<<>>, <<Draft(Cache, <<"why">>)>>, <<>>) }

\* A request in applyTaskUpdates: the await it is suspended at, and the issue
\* that client.issue gave it.
Writer(add, at, issue) == [add |-> add, at |-> at, issue |-> issue]

\* The task is stored and two requests that add different things have arrived.
InitWriters ==
    /\ issues \in { <<[NewIssue(<<"note">>, buildDescriptionWithMetadata(<<"body">>, m),
                                0, "app", 5) EXCEPT
                          !.labels = <<EffortLabel(5), NeedsDecompositionLabel>>]>> :
                      m \in StoredMetadata }
    /\ mode = "warn"
    /\ req = NoRequest
    /\ last = NoLast
    /\ handled = 0
    /\ discovery = NoDiscovery
    /\ inflight \in { <<Writer(p[1], "getTask", <<>>), Writer(p[2], "getTask", <<>>)>> :
                        p \in {q \in WriterAdds \X WriterAdds : q[1] # q[2]} }

\* context.linear.getTask(taskID) of a request settles: the task exists, and the
\* request goes on to the service method of its addition.
WriterGetTask(w) ==
    /\ inflight[w].at = "getTask"
    /\ 1 \in DOMAIN issues
    /\ inflight' = [inflight EXCEPT ![w].at = "issue"]
    /\ UNCHANGED <<issues, mode, req, last, handled, discovery>>

\* this.client.issue(taskID) settles: the method holds the issue as it is stored
\* now.
WriterIssue(w) ==
    /\ inflight[w].at = "issue"
    /\ inflight' = [inflight EXCEPT ![w].at = "updateIssue", ![w].issue = issues]
    /\ UNCHANGED <<issues, mode, req, last, handled, discovery>>

\* The description that the method builds from the issue it holds.
WriterDescription(writer) ==
    IF writer.add.lessonsLearned # <<>>
    THEN LinearAddLessonLearned(Ctx(writer.issue, <<>>, <<>>, NoError, <<>>), 1,
                                writer.add.lessonsLearned[1]).issues[1].description
    ELSE LinearAddUncertainties(Ctx(writer.issue, <<>>, <<>>, NoError, <<>>), 1,
                                writer.add.uncertainties).issues[1].description

\* this.client.updateIssue(taskID, {description}) settles: the description built
\* from the issue that was read is stored.
WriterUpdateIssue(w) ==
    /\ inflight[w].at = "updateIssue"
    /\ issues' = [issues EXCEPT ![1].description = WriterDescription(inflight[w])]
    /\ inflight' = [inflight EXCEPT ![w].at = "result"]
    /\ UNCHANGED <<mode, req, last, handled, discovery>>

\* The closing getTask settles and the request returns the task.
WriterReturns(w) ==
    /\ inflight[w].at = "result"
    /\ inflight' = [inflight EXCEPT ![w].at = "done"]
    /\ last' = [NoLast EXCEPT !.op = "updateTask", !.out = <<issueToTask(issues, 1)>>]
    /\ handled' = w
    /\ UNCHANGED <<issues, mode, req, discovery>>

NextWriters ==
    \E w \in DOMAIN inflight :
        \/ WriterGetTask(w)
        \/ WriterIssue(w)
        \/ WriterUpdateIssue(w)
        \/ WriterReturns(w)

SpecWriters == InitWriters /\ [][NextWriters]_vars

(***************************************************************************)
(* Claims                                                                  *)
(***************************************************************************)
\* The efforts of the scale, as the specification lists them.
OnScale(effort) == effort \in {1, 2, 3, 5, 8, 13, 21}

\* A creation input that the specification calls invalid by itself.
InvalidItem(input) ==
    \/ ~OnScale(input.effort)
    \/ input.effort > 3 /\ input.uncertainties = <<>>

UnknownProject(input) ==
    input.project # NoProject /\ input.project \notin ConfiguredProjects

BadBatchIndex(tasks) ==
    \E i \in DOMAIN tasks :
        \E k \in DOMAIN tasks[i].dependsOnBatchIndex :
            LET idx == tasks[i].dependsOnBatchIndex[k]
            IN  idx >= Len(tasks) \/ idx >= i - 1

InvalidBatch(tasks) ==
    \/ Len(tasks) > 50
    \/ \E i \in DOMAIN tasks : InvalidItem(tasks[i])
    \/ BadBatchIndex(tasks)

\* C2: batchCreateTasks is all-or-nothing on validation: when any item is invalid,
\* or the batch has more than 50 items, the call fails and no task is created.
C2_BatchAllOrNothing ==
    (last.op = "batchCreateTasks" /\ InvalidBatch(last.input))
        => /\ last.err # NoError
           /\ issues = last.pre

\* A batch of two was refused for its second item, the first being valid.
C2_Witness ==
    /\ last.op = "batchCreateTasks"
    /\ Len(last.input) = 2
    /\ ~InvalidItem(last.input[1])
    /\ last.input[1].dependsOnBatchIndex = <<>>
    /\ last.err \in {"InvalidEffort", "MissingUncertainties", "ForwardDependency"}
    /\ Len(last.pre) > 0

\* The stored metadata of issue t in the workspace w.
Stored(w, t) == parseMetadata(w[t].description)

Unresolved(u) == u.resolution = NoText /\ u.resolvedAt = NoText

\* The cases in which the specification says decomposeTask fails.
DecomposeMustFail(w, policyMode, input) ==
    \/ input.taskID \notin DOMAIN w
    \/ /\ input.taskID \in DOMAIN w
       /\ \/ Stored(w, input.taskID).effort <= 3
          \/ /\ policyMode = "block"
             /\ \E i \in DOMAIN Stored(w, input.taskID).uncertainties :
                    Unresolved(Stored(w, input.taskID).uncertainties[i])
    \/ \E i \in DOMAIN input.subtasks : InvalidItem(input.subtasks[i])

\* C3: decomposeTask fails for a missing parent, a parent of effort 3 or less, a
\* parent with an unresolved uncertainty under the block mode, and any invalid
\* subtask; whenever it fails it creates no subtask and leaves the parent, and
\* every other issue, as it was.
C3_DecomposeFailsClean ==
    last.op = "decomposeTask"
        => /\ DecomposeMustFail(last.pre, mode, last.input) => last.err # NoError
           /\ last.err # NoError => issues = last.pre

\* A decomposition was refused for its second subtask, the first being valid and
\* the parent being decomposable.
C3_Witness ==
    /\ last.op = "decomposeTask"
    /\ last.input.taskID \in DOMAIN last.pre
    /\ Len(last.input.subtasks) = 2
    /\ ~InvalidItem(last.input.subtasks[1])
    /\ last.err \in {"InvalidEffort", "MissingUncertainties"}

\* The calls on the store that the specification gives one update record, in
\* order: the core patch and the effort patch of `set`, the lessons, the
\* uncertainties and the labels of `add`, the labels of `remove`, the resolutions.
WriteCalls(r) ==
    (IF r.set.present /\ (r.set.status # "" \/ r.set.hasDescription)
     THEN <<"updateTask">> ELSE <<>>)
    \o (IF r.set.present /\ (r.set.effort # 0 \/ r.set.effortReason # NoText
                             \/ r.set.complexityBias # NoText)
        THEN <<"updateTaskEffort">> ELSE <<>>)
    \o [i \in DOMAIN r.add.lessonsLearned |-> "addLessonLearned"]
    \o (IF Len(r.add.uncertainties) > 0 THEN <<"addUncertainties">> ELSE <<>>)
    \o (IF Len(r.add.labels) > 0 THEN <<"updateTask">> ELSE <<>>)
    \o (IF r.remove.hasLabels THEN <<"updateTask">> ELSE <<>>)
    \o [i \in DOMAIN r.resolve |-> "resolveUncertainty"]

\* The calls of one record that is applied in full: it is read, written, read again.
RecordCalls(r) ==
    LET methods == <<"getTask">> \o WriteCalls(r) \o <<"getTask">>
    IN  [i \in DOMAIN methods |-> [method |-> methods[i], task |-> r.taskID]]

BatchCalls(records) == Flatten([i \in DOMAIN records |-> RecordCalls(records[i])])

\* The position of the record during which call number n of the batch is made.
RECURSIVE RecordOfCall(_, _, _)
RecordOfCall(records, n, k) ==
    IF k > Len(records) THEN 0
    ELSE IF n <= Len(RecordCalls(records[k])) THEN k
    ELSE RecordOfCall(records, n - Len(RecordCalls(records[k])), k + 1)

Min(a, b) == IF a < b THEN a ELSE b
Max(a, b) == IF a > b THEN a ELSE b

\* The record r cut after its first n writes.
Truncate(r, n) ==
    LET core == IF r.set.present /\ (r.set.status # "" \/ r.set.hasDescription)
                THEN 1 ELSE 0
        patch == IF r.set.present /\ (r.set.effort # 0 \/ r.set.effortReason # NoText
                                      \/ r.set.complexityBias # NoText)
                 THEN 1 ELSE 0
        L == Len(r.add.lessonsLearned)
        U == IF Len(r.add.uncertainties) > 0 THEN 1 ELSE 0
        A == IF Len(r.add.labels) > 0 THEN 1 ELSE 0
        R == IF r.remove.hasLabels THEN 1 ELSE 0
        keepCore == core = 1 /\ n >= 1
        keepPatch == patch = 1 /\ n >= core + 1
    IN  [taskID |-> r.taskID,
         set |-> [present |-> keepCore \/ keepPatch,
                  status |-> IF keepCore THEN r.set.status ELSE "",
                  hasDescription |-> keepCore /\ r.set.hasDescription,
                  description |-> IF keepCore THEN r.set.description ELSE NoText,
                  effort |-> IF keepPatch THEN r.set.effort ELSE 0,
                  effortReason |-> IF keepPatch THEN r.set.effortReason ELSE NoText,
                  complexityBias |-> IF keepPatch THEN r.set.complexityBias ELSE NoText],
         add |-> [present |-> r.add.present,
                  lessonsLearned |->
                      SubSeq(r.add.lessonsLearned, 1, Min(L, Max(0, n - core - patch))),
                  uncertainties |-> IF U = 1 /\ n >= core + patch + L + 1
                                    THEN r.add.uncertainties ELSE <<>>,
                  labels |-> IF A = 1 /\ n >= core + patch + L + U + 1
                             THEN r.add.labels ELSE <<>>],
         remove |-> IF R = 1 /\ n >= core + patch + L + U + A + 1
                    THEN r.remove ELSE NoRemove,
         resolve |-> SubSeq(r.resolve, 1,
                            Min(Len(r.resolve), Max(0, n - core - patch - L - U - A - R)))]

\* The batch cut where it failed: the records before k, and record k cut after
\* the writes that were made before its call number n failed.
CutBatch(records, k, n) ==
    SubSeq(records, 1, k - 1)
        \o (IF n >= 2 THEN <<Truncate(records[k], n - 2)>> ELSE <<>>)

\* C4: an update batch is applied in order, fails fast and rolls nothing back.
\* When it fails during record k: the calls made on the store are all the calls
\* of the records before k followed by the first calls of record k, and none of
\* a later record; the workspace is the one that the records before k and the
\* writes of record k made before the failing call leave, each applied in full;
\* no task list is returned; and a record that names a missing task fails with
\* TaskNotFound at its first read.
C4_FailFastNoRollback ==
    (last.op = "updateTask" /\ last.err # NoError) =>
        LET k == RecordOfCall(last.input, Len(last.calls), 1)
            n == Len(last.calls) - Len(BatchCalls(SubSeq(last.input, 1, k - 1)))
            cut == OrchUpdateTask(Ctx(last.pre, <<>>, <<>>, NoError, <<>>),
                                  CutBatch(last.input, k, n))
        IN  /\ k \in DOMAIN last.input
            /\ last.calls = BatchCalls(SubSeq(last.input, 1, k - 1))
                                \o SubSeq(RecordCalls(last.input[k]), 1, n)
            /\ Ok(cut)
            /\ issues = cut.issues
            /\ last.out = <<>>
            /\ last.input[k].taskID \notin DOMAIN last.pre
                   => last.err = "TaskNotFound" /\ n = 1

\* A batch of two failed in its second record, at the effort patch: the first
\* record had added a lesson, the second had already set the status.
C4_Witness ==
    /\ last.op = "updateTask"
    /\ Len(last.input) = 2
    /\ last.err = "InvalidEffort"
    /\ Len(last.calls) = 6
    /\ Len(last.input[1].add.lessonsLearned) = 1
    /\ issues[last.input[2].taskID].state = "Done"
    /\ last.pre[last.input[2].taskID].state = "Backlog"

\* C5: update records whose add.labels and remove.labels name no synthetic label
\* never lose the synthetic labels: every task carries the effort:N label of its
\* current effort and no other effort label, and a task of effort above 3 that
\* was never decomposed carries needs-decomposition.
C5_SyntheticLabelsKept ==
    \A t \in DOMAIN issues :
        LET effort == Stored(issues, t).effort
            labels == issues[t].labels
        IN  /\ Contains(labels, EffortLabel(effort))
            /\ \A i \in DOMAIN labels :
                   labels[i][1] = "effort:" => labels[i] = EffortLabel(effort)
            /\ effort > 3 => Contains(labels, NeedsDecompositionLabel)

\* The title as the de-duplication compares it.
NormalTitle(u) == ToLowerCase(Trim(u.title))

\* C6: no task stores two uncertainties whose titles are equal after trimming
\* and lower-casing.
C6_UniqueTitles ==
    \A t \in DOMAIN issues :
        LET U == Stored(issues, t).uncertainties
        IN  \A i, j \in DOMAIN U : i < j => NormalTitle(U[i]) # NormalTitle(U[j])

\* C8: after a successful createTask, batchCreateTasks or decomposeTask, every
\* task it created with an effort above 3 stores at least one uncertainty.
C8_LargeTasksHaveUncertainty ==
    (last.op \in {"createTask", "batchCreateTasks", "decomposeTask"} /\ last.err = NoError)
        => \A t \in DOMAIN issues \ DOMAIN last.pre :
               Stored(issues, t).effort > 3 => Len(Stored(issues, t).uncertainties) >= 1

\* The records of a batch that name task t.
RecordsOn(records, t) == SelectSeq(records, LAMBDA r : r.taskID = t)

\* The uncertainties that the records of a batch add to task t.
UncertaintiesAdded(records, t) ==
    Flatten([i \in DOMAIN RecordsOn(records, t) |-> RecordsOn(records, t)[i].add.uncertainties])

\* C7: adding uncertainties is idempotent under case and whitespace variation.
\* Across any update batch the uncertainties that a task stored keep their place,
\* title and description, and their resolution unless the batch resolves on that
\* task; every uncertainty stored behind them has a trimmed, lower-cased title
\* that an added uncertainty has and that no uncertainty stored before it has; a
\* record that only adds uncertainties to a stored task raises no error.
C7_AddUncertaintiesIdempotent ==
    last.op = "updateTask" =>
        /\ \A t \in DOMAIN last.pre :
               LET U == Stored(last.pre, t).uncertainties
                   V == Stored(issues, t).uncertainties
                   added == UncertaintiesAdded(last.input, t)
               IN  /\ Len(U) <= Len(V)
                   /\ \A i \in DOMAIN U :
                          /\ V[i].title = U[i].title
                          /\ V[i].description = U[i].description
                          /\ (\A r \in Range(RecordsOn(last.input, t)) : r.resolve = <<>>)
                                 => V[i] = U[i]
                   /\ \A j \in DOMAIN V :
                          j > Len(U) =>
                              /\ \E a \in Range(added) : NormalTitle(a) = NormalTitle(V[j])
                              /\ \A i \in 1..(j - 1) : NormalTitle(V[i]) # NormalTitle(V[j])
        /\ (/\ Len(last.input) = 1
            /\ last.input[1].taskID \in DOMAIN last.pre
            /\ ~last.input[1].set.present
            /\ ~last.input[1].remove.hasLabels
            /\ last.input[1].resolve = <<>>
            /\ last.input[1].add.lessonsLearned = <<>>
            /\ last.input[1].add.labels = <<>>) => last.err = NoError

\* "risk " with a description and "Auth" were added to a task that stored a
\* resolved "Risk": the task stores the resolved "Risk" as it was, and "Auth".
C7_Witness ==
    /\ last.op = "updateTask"
    /\ last.err = NoError
    /\ Len(last.input) = 1
    /\ Len(last.input[1].add.uncertainties) = 2
    /\ last.input[1].add.uncertainties[1].title = RiskVariant
    /\ last.input[1].taskID \in DOMAIN last.pre
    /\ LET U == Stored(last.pre, last.input[1].taskID).uncertainties
           V == Stored(issues, last.input[1].taskID).uncertainties
       IN  /\ Len(U) = 1
           /\ U[1].title = Risk
           /\ U[1].resolution # NoText
           /\ Len(V) = 2
           /\ V[2].title = Auth

\* A batch of one record that resolves one uncertainty and does nothing else.
PureResolve(records) ==
    /\ Len(records) = 1
    /\ ~records[1].set.present
    /\ ~records[1].add.present
    /\ ~records[1].remove.hasLabels
    /\ Len(records[1].resolve) = 1

\* The outcome of resolving one uncertainty, Kept(text) being the resolution
\* that is stored for the given text.
ResolveOutcome(Kept(_)) ==
    (last.op = "updateTask" /\ PureResolve(last.input)
        /\ last.input[1].taskID \in DOMAIN last.pre) =>
        LET t == last.input[1].taskID
            given == last.input[1].resolve[1]
            U == Stored(last.pre, t).uncertainties
            V == Stored(issues, t).uncertainties
            I == {i \in DOMAIN U : U[i].title = given.title}
        IN  IF I = {}
            THEN last.err = "UncertaintyNotFound" /\ issues = last.pre
            ELSE LET k == CHOOSE i \in I : \A j \in I : i <= j
                 IN  /\ last.err = NoError
                     /\ Len(V) = Len(U)
                     /\ V[k].title = U[k].title
                     /\ V[k].description = U[k].description
                     /\ V[k].resolution = Kept(given.resolution)
                     /\ V[k].resolvedAt # NoText
                     /\ \A i \in DOMAIN U : i # k => V[i] = U[i]

LessonsAdded(records, t) ==
    Flatten([i \in DOMAIN RecordsOn(records, t) |-> RecordsOn(records, t)[i].add.lessonsLearned])

IsPrefix(s, t) == Len(s) <= Len(t) /\ SubSeq(t, 1, Len(s)) = s

\* The lessons of a task across an update batch, Kept(lesson) being what is
\* stored for a lesson: the stored list is the previous one followed by the added
\* lessons when the batch succeeds, and starts with the previous one in any case.
LessonsOutcome(Kept(_)) ==
    last.op = "updateTask" =>
        \A t \in DOMAIN last.pre :
            LET before == Stored(last.pre, t).lessonsLearned
                after == Stored(issues, t).lessonsLearned
                added == LessonsAdded(last.input, t)
            IN  /\ IsPrefix(before, after)
                /\ last.err = NoError
                       => after = before \o [i \in DOMAIN added |-> Kept(added[i])]

Plain(w, t) == extractPlainDescription(w[t].description)

SetsDescription(r) == r.set.present /\ r.set.hasDescription

\* C11: each write channel changes only its own part of the stored description.
\* Across an update batch, the plain description of a task is what it was unless a
\* record on the task sets the description, and is the text last set when the
\* batch succeeds; the goal and the complexity bias are as stored before; the
\* effort, the effort reason, the uncertainties and the lessons are as stored
\* before unless a record on the task writes that very field.
C11_WriteChannelsFramed ==
    last.op = "updateTask" =>
        \A t \in DOMAIN last.pre :
            LET before == Stored(last.pre, t)
                after == Stored(issues, t)
                on == RecordsOn(last.input, t)
                given == SelectSeq(on, SetsDescription)
            IN  /\ given = <<>> => Plain(issues, t) = Plain(last.pre, t)
                /\ (given # <<>> /\ last.err = NoError)
                       => Plain(issues, t) = given[Len(given)].set.description
                /\ after.goal = before.goal
                /\ after.complexityBias = before.complexityBias
                /\ (\A i \in DOMAIN on : on[i].set.effort = 0)
                       => after.effort = before.effort
                /\ (\A i \in DOMAIN on : on[i].set.effortReason = NoText)
                       => after.effortReason = before.effortReason
                /\ (\A i \in DOMAIN on :
                        on[i].add.uncertainties = <<>> /\ on[i].resolve = <<>>)
                       => after.uncertainties = before.uncertainties
                /\ (\A i \in DOMAIN on : on[i].add.lessonsLearned = <<>>)
                       => after.lessonsLearned = before.lessonsLearned

\* The description was set on a task that stored uncertainties and a lesson: the
\* plain text is the new one, the uncertainties and the lesson are still stored.
C11_Witness ==
    /\ last.op = "updateTask"
    /\ last.err = NoError
    /\ Len(last.input) = 1
    /\ SetsDescription(last.input[1])
    /\ LET t == last.input[1].taskID
       IN  /\ Plain(issues, t) = last.input[1].set.description
           /\ Plain(last.pre, t) # Plain(issues, t)
           /\ Stored(last.pre, t).uncertainties # <<>>
           /\ Stored(last.pre, t).lessonsLearned # <<>>
           /\ Stored(issues, t).lessonsLearned = Stored(last.pre, t).lessonsLearned

\* The root that the parent links lead to from issue t of the workspace w.
RECURSIVE RootOf(_, _)
RootOf(w, t) ==
    IF w[t].parent = 0 \/ w[t].parent \notin DOMAIN w THEN t ELSE RootOf(w, w[t].parent)

StatusOf(w, t) == mapLinearStateToStatus(w[t].state)

\* Issue r and all issues below it are done.
TreeDone(w, r) == \A t \in DOMAIN w : RootOf(w, t) = r => StatusOf(w, t) = "done"

\* The records of a batch that set the status done on a task below the root r.
DoneRecords(records, w, r) ==
    {i \in DOMAIN records :
        /\ records[i].set.present
        /\ records[i].set.status = "done"
        /\ RootOf(w, records[i].taskID) = r}

Advisories(logs, r) ==
    Cardinality({i \in DOMAIN logs : logs[i] = Msg("tree completed", r)})

\* C12: for each record of a successful update batch, the tree-completed advisory
\* is emitted if and only if the record sets the status done and, in the store
\* after the batch, the root above the updated task and all its descendants are
\* done: for every root, as many advisories name it as there are such records if
\* its tree is done, and none otherwise.
C12_AdvisoryIffTreeDone ==
    (last.op = "updateTask" /\ last.err = NoError) =>
        \A r \in DOMAIN issues :
            Advisories(last.logs, r) =
                IF TreeDone(issues, r)
                THEN Cardinality(DoneRecords(last.input, issues, r))
                ELSE 0

\* Task t of the tree f is below task a, or is a.
RECURSIVE Below(_, _, _)
Below(f, t, a) == t = a \/ (f.parent[t] # 0 /\ Below(f, f.parent[t], a))

AllDone(f, a) == \A t \in DOMAIN f.parent : Below(f, t, a) => f.status[t] = "done"

\* C13: isEntireTreeDone computes tree-done: with a loader that returns each task
\* with its direct subtasks, the answer for a task is true if and only if the
\* task and every task below it are done.
C13_TreeDoneIffAllDone ==
    last.op = "isEntireTreeDone" =>
        (last.out[1] <=> AllDone(last.input.forest, last.input.task.taskID))

\* A done parent with one child that is not done and a done grandchild: false.
C13_Witness ==
    /\ last.op = "isEntireTreeDone"
    /\ last.out = <<FALSE>>
    /\ LET f == last.input.forest
       IN  /\ f.parent = <<0, 1, 2>>
           /\ f.status = <<"done", "todo", "done">>
           /\ last.input.task.taskID = 1

\* C14: after decomposeTask succeeds on a parent, the parent no longer carries the
\* needs-decomposition label, and every task the call created has the parent as
\* its parentTaskID, in the store and in the returned list.
C14_DecomposedParentAndChildren ==
    (last.op = "decomposeTask" /\ last.err = NoError) =>
        /\ ~Contains(issues[last.input.taskID].labels, NeedsDecompositionLabel)
        /\ \A t \in DOMAIN issues \ DOMAIN last.pre :
               issueToTask(issues, t).parentTaskID = last.input.taskID
        /\ \A i \in DOMAIN last.out : last.out[i].parentTaskID = last.input.taskID

\* A parent that carried needs-decomposition was decomposed into two subtasks.
C14_Witness ==
    /\ last.op = "decomposeTask"
    /\ last.err = NoError
    /\ Contains(last.pre[last.input.taskID].labels, NeedsDecompositionLabel)
    /\ Len(issues) = Len(last.pre) + 2
    /\ Len(last.out) = 2

\* The issues of the workspace w whose parent is issue p.
Children(w, p) == {t \in DOMAIN w : w[t].parent = p}

\* C15: a task is decomposed into children once: a decomposeTask call on a parent
\* that a decomposition gave children already fails and creates no subtask, so
\* the children of the parent stay the ones of the first decomposition.
C15_DecomposedOnce ==
    (/\ last.op = "decomposeTask"
     /\ last.input.taskID \in DOMAIN last.pre
     /\ Children(last.pre, last.input.taskID) # {})
        => /\ last.err # NoError
           /\ Children(issues, last.input.taskID) = Children(last.pre, last.input.taskID)

\* The uncertainties of the list us that lack both a resolution and a resolvedAt.
UnresolvedIn(us) == {i \in DOMAIN us : Unresolved(us[i])}

\* C16: the decomposition guard depends only on the mode and on the number of
\* uncertainties lacking both resolution and resolvedAt: in mode off it neither
\* throws nor warns; in mode block it throws iff that number is above 0 and never
\* warns; in mode warn it never throws and warns once iff that number is above 0.
C16_GuardByModeAndCount ==
    last.op = "handleDecompositionGuard" =>
        LET n == Cardinality(UnresolvedIn(last.input.uncertainties))
        IN  /\ mode = "off" => last.err = NoError /\ last.logs = <<>>
            /\ mode = "block" => (last.err # NoError <=> n > 0) /\ last.logs = <<>>
            /\ mode = "warn" => /\ last.err = NoError
                                /\ Len(last.logs) = IF n > 0 THEN 1 ELSE 0

\* Mode block and a task whose only uncertainty has a resolvedAt and no
\* resolution: the guard lets the decomposition through.
C16_Witness ==
    /\ last.op = "handleDecompositionGuard"
    /\ mode = "block"
    /\ Len(last.input.uncertainties) = 1
    /\ last.input.uncertainties[1].resolution = NoText
    /\ last.input.uncertainties[1].resolvedAt # NoText
    /\ last.err = NoError

\* C17: validateForCreation fails if and only if the effort is above 3 and the
\* list of uncertainties is empty, whatever the mode of the policy.
C17_ValidateForCreationIff ==
    last.op = "validateForCreation" =>
        (last.err # NoError <=> (last.input.effort > 3 /\ last.input.uncertainties = <<>>))

\* Effort 5 without an uncertainty was refused by a policy of mode off.
C17_Witness ==
    /\ last.op = "validateForCreation"
    /\ mode = "off"
    /\ last.input.effort = 5
    /\ last.input.uncertainties = <<>>
    /\ last.err = "MissingUncertainties"

\* The entries <<i, k>> of a batch (item i, entry k, both counted from 1) that do
\* not name a position before the item's own.
Offences(tasks) ==
    UNION { { <<i, k>> : k \in {j \in DOMAIN tasks[i].dependsOnBatchIndex :
                                   tasks[i].dependsOnBatchIndex[j] >= i - 1} } :
            i \in DOMAIN tasks }

FirstOffence(tasks) ==
    CHOOSE o \in Offences(tasks) :
        \A p \in Offences(tasks) : o[1] < p[1] \/ (o[1] = p[1] /\ o[2] <= p[2])

\* The error that the first offending entry stands for.
OffenceError(tasks, o) ==
    LET idx == tasks[o[1]].dependsOnBatchIndex[o[2]]
    IN  IF idx >= Len(tasks) THEN "BatchIndexOutOfRange"
        ELSE IF idx = o[1] - 1 THEN "SelfDependency"
        ELSE "ForwardDependency"

ValidItems(tasks) ==
    /\ Len(tasks) \in 1..50
    /\ \A i \in DOMAIN tasks :
           /\ ~InvalidItem(tasks[i])
           /\ ~UnknownProject(tasks[i])
           /\ tasks[i].effort > 3 => normalizeUncertainties(tasks[i].uncertainties) # <<>>

\* C18: a batch of valid items is accepted if and only if every entry of every
\* dependsOnBatchIndex is below the item's own position; otherwise the error is
\* that of the first offending entry, in item order then entry order: out of
\* range, self dependency or forward dependency.
C18_FirstOffendingEntry ==
    (last.op = "batchCreateTasks" /\ ValidItems(last.input)) =>
        IF Offences(last.input) = {}
        THEN last.err = NoError /\ Len(last.out) = Len(last.input)
        ELSE last.err = OffenceError(last.input, FirstOffence(last.input))

\* The first item depends on the second and on a position out of range, in that
\* order: the batch is refused for the forward dependency.
C18_Witness ==
    /\ last.op = "batchCreateTasks"
    /\ Len(last.input) = 2
    /\ last.input[1].dependsOnBatchIndex = <<1, 2>>
    /\ last.err = "ForwardDependency"
    /\ issues = last.pre


\* C19: queryTasks with an operation that has none of set, add, remove and
\* resolve fails with EmptyOperation and issues no call to the task store (no
\* list, no get, no write), whatever the filter and the limit; the store is left
\* as it was.
EmptyOperation(operation) ==
    /\ ~operation.set.present
    /\ ~operation.add.present
    /\ ~operation.remove.hasLabels
    /\ operation.resolve = <<>>

C19_EmptyOperationNoContact ==
    (last.op = "queryTasks" /\ EmptyOperation(last.input.operation))
        => /\ last.err = "EmptyOperation"
           /\ last.calls = <<>>
           /\ issues = last.pre

\* An empty operation was refused while tasks that the filter selects were stored.
C19_Witness ==
    /\ last.op = "queryTasks"
    /\ EmptyOperation(last.input.operation)
    /\ last.input.filter = NoFilter
    /\ last.pre # <<>>
    /\ last.err = "EmptyOperation"

\* C20: a successful queryTasks applies its operation exactly once, as one
\* updateTask record, to every task that matched (the fetched tasks that satisfy
\* the filter) and to no other task: updated = matched <= limit, the returned
\* tasks are the matched tasks in list order, every other task is unchanged in
\* the store and has no write call, and when nothing matches the result is
\* matched = 0, updated = 0, tasks = [] and no update call is made.
WriteMethods ==
    {"updateTask", "updateTaskEffort", "addUncertainties", "resolveUncertainty",
     "addLessonLearned"}

WritesOn(calls, id) ==
    SelectSeq(calls, LAMBDA call : call.method \in WriteMethods /\ call.task = id)

\* The ids of the matched tasks of a query, in list order.
MatchedIds(r) ==
    SelectSeq(IssuesPage(r.pre, r.input.filter.project, r.input.limit),
              LAMBDA id : PassesFilter(issueToTask(r.pre, id), r.input.filter,
                                       IF r.input.filter.ready THEN <<"todo", "backlog">>
                                       ELSE <<>>))

\* One updateTask of the operation on one task of the workspace before the query.
UpdatedAlone(r, id) ==
    OrchUpdateTask(Ctx(r.pre, <<>>, <<>>, NoError, <<>>),
                   <<UpdateRecord(id, r.input.operation.set, r.input.operation.add,
                                  r.input.operation.remove, r.input.operation.resolve)>>)

C20_OperationOncePerMatch ==
    (last.op = "queryTasks" /\ last.err = NoError)
        => /\ last.out.matched = Len(MatchedIds(last))
           /\ last.out.updated = last.out.matched
           /\ last.out.matched <= last.input.limit
           /\ [i \in DOMAIN last.out.tasks |-> last.out.tasks[i].taskID] = MatchedIds(last)
           /\ \A i \in DOMAIN last.out.tasks :
                  last.out.tasks[i] = issueToTask(issues, last.out.tasks[i].taskID)
           /\ DOMAIN issues = DOMAIN last.pre
           /\ \A id \in DOMAIN issues :
                  IF Contains(MatchedIds(last), id)
                  THEN /\ issues[id] = UpdatedAlone(last, id).issues[id]
                       /\ WritesOn(last.calls, id) = WritesOn(UpdatedAlone(last, id).calls, id)
                       /\ WritesOn(last.calls, id) # <<>>
                  ELSE /\ issues[id] = last.pre[id]
                       /\ WritesOn(last.calls, id) = <<>>
           /\ MatchedIds(last) = <<>>
                  => /\ last.out = QueryResult(0, 0, <<>>)
                     /\ \A i \in DOMAIN last.calls : last.calls[i].method = "listTasks"

\* A query updated one of two stored tasks and left the other, which did not
\* satisfy the filter, alone.
C20_Witness ==
    /\ last.op = "queryTasks"
    /\ last.err = NoError
    /\ Len(last.pre) = 2
    /\ last.input.limit = 2
    /\ last.out.matched = 1
    /\ last.out.updated = 1
    /\ issues # last.pre

\* A query that matched nothing answered zero counts and no tasks.
C20_WitnessNoMatch ==
    /\ last.op = "queryTasks"
    /\ last.err = NoError
    /\ last.pre # <<>>
    /\ last.out = QueryResult(0, 0, <<>>)


\* C21: listTasks with filter.ready (and no other test than status_in) and
\* getReadyTasks return exactly the fetched tasks, in their fetched order, that
\* have no uncertainty lacking a resolution, do not carry the needs-decomposition
\* label and whose status is todo or backlog; when status_in is given it alone
\* decides the status restriction and the other two conditions still apply.
FetchedTasks(w, first) ==
    [i \in 1..(IF first < Len(w) THEN first ELSE Len(w)) |-> issueToTask(w, i)]

NothingPending(task) ==
    /\ \A i \in DOMAIN task.uncertainties : task.uncertainties[i].resolution # NoText
    /\ ~Contains(task.labels, <<"needs-decomposition">>)

ReadyAmong(tasks, statuses) ==
    SelectSeq(tasks, LAMBDA task : task.status \in statuses /\ NothingPending(task))

LimitOf(limit, default) == IF limit = 0 THEN default ELSE limit

ResolveTable(projects, defaultProject, requested) ==
    IF requested # NoProject
    THEN IF requested \in projects THEN <<NoError, requested, 0>>
         ELSE <<"UnknownProject", NoProject, 0>>
    ELSE IF defaultProject \in projects THEN <<NoError, defaultProject, 0>>
    ELSE IF Cardinality(projects) = 1 THEN <<NoError, CHOOSE k \in projects : TRUE, 1>>
    ELSE IF Cardinality(projects) > 1 THEN <<NoError, NoProject, 1>>
    ELSE <<NoError, NoProject, 0>>

C22_ResolveDecisionTable ==
    last.op = "resolve"
        => /\ <<last.err, last.out[1], Len(last.logs)>>
                  = ResolveTable(last.input.projects, last.input.defaultProject,
                                 last.input.requested)
           /\ (last.err = NoError /\ last.out[1] # NoProject)
                  => last.out[1] \in last.input.projects


\* C23 (as claimed): decoding the encoded text yields the goal, effort,
\* effortReason and complexityBias of the metadata, its uncertainties and its
\* lessons, each lesson with its content, category and tags.
C23_RoundTrip ==
    last.op = "roundTrip" => last.out[1] = last.input.metadata

\* C23 (amended): decoding the encoded text yields the effort and the
\* complexityBias of the metadata, its goal and effortReason without surrounding
\* whitespace, its uncertainties in order with each field without surrounding
\* whitespace, and its lessons in order with their category and their content
\* without surrounding whitespace, and without their tags.
DecodedUncertainty(u) ==
    Uncertainty(Trim(u.title), Trim(u.description), Trim(u.resolution),
                Trim(u.resolvedBy), Trim(u.resolvedAt))

DecodedLesson(l) == Lesson(Trim(l.content), l.category, <<>>)

Decoded(m) ==
    [goal |-> Trim(m.goal), effort |-> m.effort, effortReason |-> Trim(m.effortReason),
     complexityBias |-> m.complexityBias,
     uncertainties |-> [i \in DOMAIN m.uncertainties |->
                           DecodedUncertainty(m.uncertainties[i])],
     lessonsLearned |-> [i \in DOMAIN m.lessonsLearned |->
                            DecodedLesson(m.lessonsLearned[i])]]

C23_RoundTripWithoutTags ==
    last.op = "roundTrip" => last.out[1] = Decoded(last.input.metadata)

\* A metadata value with a resolved uncertainty and a tagged lesson was decoded
\* from a text whose plain part holds lines of the metadata grammar.
C23_Witness ==
    /\ last.op = "roundTrip"
    /\ Len(last.input.plainDescription) > 1
    /\ \E i \in DOMAIN last.input.metadata.uncertainties :
           last.input.metadata.uncertainties[i].resolution # NoText
    /\ \E i \in DOMAIN last.input.metadata.lessonsLearned :
           last.input.metadata.lessonsLearned[i].tags # <<>>
    /\ Len(last.out[1].lessonsLearned) = 2


\* C24: the cache file of a ProjectDiscovery instance is read at most once, for
\* every sequence and every interleaving of getProject calls at their awaits,
\* two calls started before the first load has completed included.
C24_CacheFileReadOnce == discovery.reads <= 1


\* C25: after an update record that sets effort to e succeeds, the stored effort
\* of the task is e and its labels contain effort:e, contain no other effort
\* label, contain needs-decomposition if and only if e > 3, and still contain
\* every non-synthetic label that the task had before the record.
IsSynthetic(label) == label[1] = "effort:" \/ label = <<"needs-decomposition">>

C25_EffortLabelsFollowEffort ==
    (/\ last.op = "updateTask"
     /\ last.err = NoError
     /\ Len(last.input) = 1
     /\ last.input[1].set.present
     /\ last.input[1].set.effort # 0)
        => LET t == last.input[1].taskID
               e == last.input[1].set.effort
               labels == issues[t].labels
               before == last.pre[t].labels
           IN  /\ Stored(issues, t).effort = e
               /\ Contains(labels, <<"effort:", ToString(e)>>)
               /\ \A i \in DOMAIN labels :
                      labels[i][1] = "effort:" => labels[i] = <<"effort:", ToString(e)>>
               /\ Contains(labels, <<"needs-decomposition">>) <=> e > 3
               /\ \A i \in DOMAIN before :
                      ~IsSynthetic(before[i]) => Contains(labels, before[i])


\* C26: in every store state reachable through createTask, batchCreateTasks,
\* decomposeTask and updates, every parent link names an existing task and the
\* links are acyclic, so that the walk from any task to its root ends and loads
\* no task twice, and isEntireTreeDone on the root ends.
\* The walk up from t ends within n steps.
RECURSIVE EndsWithin(_, _, _)
EndsWithin(w, t, n) ==
    IF w[t].parent = 0 THEN TRUE
    ELSE IF n = 0 THEN FALSE
    ELSE EndsWithin(w, w[t].parent, n - 1)

\* The tasks that findRootTask loads on its way up from t.
LoadedFrom(w, t) ==
    Let(findRootTask(Ctx(w, <<>>, <<>>, NoError, <<>>), issueToTask(w, t)),
        LAMBDA c : [i \in DOMAIN c.calls |-> c.calls[i].task])

NoRepeat(s) == \A i \in DOMAIN s : \A j \in DOMAIN s : s[i] = s[j] => i = j

C26_ParentLinksWellFounded ==
    /\ \A t \in DOMAIN issues : issues[t].parent \in {0} \cup DOMAIN issues
    /\ \A t \in DOMAIN issues : EndsWithin(issues, t, Len(issues))
    /\ \A t \in DOMAIN issues :
           /\ NoRepeat(LoadedFrom(issues, t))
           /\ Len(LoadedFrom(issues, t)) < Len(issues)
           /\ Let(findRootTask(Ctx(issues, <<>>, <<>>, NoError, <<>>), issueToTask(issues, t)),
                  LAMBDA c : /\ c.out[1].parentTaskID = 0
                             /\ isEntireTreeDone(c.out[1], TaskLoader(issues)) \in BOOLEAN)

\* A subtask of a subtask is stored: the walk from it loads two tasks.
C26_Witness ==
    \E t \in DOMAIN issues :
        /\ issues[t].parent # 0
        /\ issues[issues[t].parent].parent # 0
        /\ Len(LoadedFrom(issues, t)) = 2


\* The advisories of a request, by their text.
HasAdvisory(r, text) == \E i \in DOMAIN r.logs : r.logs[i].msg = text

\* The call created its task and returned it.
CreatedAndReturned(r, w) ==
    /\ r.err = NoError
    /\ Len(w) = Len(r.pre) + 1
    /\ r.out = <<issueToTask(w, Len(w))>>

\* C27 (as claimed): createTask emits the decomposition advisory if and only if
\* the effort is > 3, and the high-uncertainty advisory if and only if the effort
\* is > 3 and the input carries at least 4 uncertainties.
C27_EscalatesFromFour ==
    (last.op = "createTask" /\ last.err = NoError)
        => /\ HasAdvisory(last, "requires decomposition") <=> last.input.effort > 3
           /\ HasAdvisory(last, "high uncertainty count")
                  <=> (last.input.effort > 3 /\ Len(last.input.uncertainties) >= 4)

\* C27 (amended): a createTask that succeeds emits the decomposition advisory if
\* and only if the effort is > 3, and the high-uncertainty advisory if and only
\* if the effort is > 3 and the input carries at least 3 uncertainty entries;
\* a createTask that fails emits neither, and a call that emits an advisory has
\* created its task and returns it.
C27_EscalatesFromThree ==
    last.op = "createTask"
        => /\ HasAdvisory(last, "requires decomposition")
                  <=> (last.err = NoError /\ last.input.effort > 3)
           /\ HasAdvisory(last, "high uncertainty count")
                  <=> (/\ last.err = NoError
                       /\ last.input.effort > 3
                       /\ Len(last.input.uncertainties) >= 3)
           /\ (HasAdvisory(last, "requires decomposition")
                   \/ HasAdvisory(last, "high uncertainty count"))
                  => CreatedAndReturned(last, issues)

\* A task of effort above 3 with exactly three uncertainty entries was created
\* with both advisories.
C27_Witness ==
    /\ last.op = "createTask"
    /\ last.input.effort > 3
    /\ Len(last.input.uncertainties) = 3
    /\ HasAdvisory(last, "requires decomposition")
    /\ HasAdvisory(last, "high uncertainty count")
    /\ CreatedAndReturned(last, issues)


\* C28: an uncertainty title that an add accepted can be resolved under the same
\* title: after an update record with add.uncertainties containing the title t
\* has completed without error, a resolve with the title t on that task succeeds
\* and leaves an uncertainty of the task resolved; titles given with surrounding
\* whitespace and titles that differ only in case from a stored one included.
ResolveNext(w, t, title) ==
    OrchUpdateTask(Ctx(w, <<>>, <<>>, NoError, <<>>),
                   <<UpdateRecord(t, NoSet, NoAdd, NoRemove,
                                  <<Resolution(title, <<"fix">>)>>)>>)

C28_AddedTitleResolves ==
    (/\ last.op = "updateTask"
     /\ last.err = NoError
     /\ Len(last.input) = 1)
        => \A i \in DOMAIN last.input[1].add.uncertainties :
               Let(ResolveNext(issues, last.input[1].taskID,
                               last.input[1].add.uncertainties[i].title),
                   LAMBDA c :
                       /\ Ok(c)
                       /\ \E k \in DOMAIN Stored(c.issues, last.input[1].taskID).uncertainties :
                              Stored(c.issues, last.input[1].taskID).uncertainties[k].resolution
                                  = <<"fix">>)


\* C29: a stored description never accumulates metadata blocks: whatever follows
\* the end marker of a description with one block (a blank line, a single
\* newline or nothing), each operation that writes metadata leaves a description
\* with exactly one block, and the plain description that the task reports
\* holds neither sentinel marker.
CountOf(text, tok) == Cardinality({i \in DOMAIN text : text[i] = tok})

OneBlock(text) ==
    /\ CountOf(text, "---WORKFLOW-METADATA---") = 1
    /\ CountOf(text, "---END-METADATA---") = 1

WroteMetadata(r) ==
    \E i \in DOMAIN r.calls :
        r.calls[i].method
            \in {"addLessonLearned", "addUncertainties", "resolveUncertainty", "updateTaskEffort"}

C29_OneMetadataBlock ==
    (last.op = "updateTask" /\ WroteMetadata(last))
        => \A t \in DOMAIN issues :
               OneBlock(last.pre[t].description)
                   => /\ OneBlock(issues[t].description)
                      /\ CountOf(issueToTask(issues, t).description,
                                 "---WORKFLOW-METADATA---") = 0
                      /\ CountOf(issueToTask(issues, t).description,
                                 "---END-METADATA---") = 0


\* C30: no stored lesson or uncertainty is lost when two requests that write the
\* metadata of one task interleave at their awaits: when two update requests
\* that each add one lesson, or one uncertainty with a title of its own, have
\* both completed, the stored metadata holds both additions.
HoldsAddition(metadata, add) ==
    /\ \A i \in DOMAIN add.lessonsLearned :
           \E k \in DOMAIN metadata.lessonsLearned :
               metadata.lessonsLearned[k].content = add.lessonsLearned[i].content
    /\ \A i \in DOMAIN add.uncertainties :
           \E k \in DOMAIN metadata.uncertainties :
               metadata.uncertainties[k].title = add.uncertainties[i].title

C30_NoLostAddition ==
    (inflight # NoWrites /\ \A w \in DOMAIN inflight : inflight[w].at = "done")
        => \A w \in DOMAIN inflight : HoldsAddition(Stored(issues, 1), inflight[w].add)

====
